---- MODULE Spec2Model ----
(***************************************************************************)
(* Verification model of the appointment-booking assistant                 *)
(* (Kasho0o/ak-bot-enterprise).  The repository is a set of stand-alone    *)
(* variants of one program; the variants modelled here are                 *)
(*   "p002"  src/unnamed/part_002  (sequential, pLimit(1) declared)        *)
(*   "p004"  src/unnamed/part_004  (cache, retry, windows, pLimit(3))      *)
(*   "p006"  src/unnamed/part_006  (cache, linear retry, pLimit(3))        *)
(* Each component has its own specification (SpecConfig, SpecRetry, ...)   *)
(* over the shared variable list; a specification leaves the variables of  *)
(* the other components unchanged.                                         *)
(***************************************************************************)
EXTENDS Integers, Sequences, FiniteSets, TLC

\* JavaScript null / a present value, as a sequence of length 0 / 1.
Null == <<>>
Some(x) == <<x>>

VARIABLES
  variant,      \* which variant of the program is deployed
  now,          \* Date.now(), in milliseconds
  ticks,        \* number of clock advances so far (bounds the run)
  cache,        \* ConfigManager.cache: Null or Some(array)
  cacheExpiry,  \* ConfigManager.cacheExpiry
  cacheTtl,     \* ConfigManager.cacheTtl
  cmPc,         \* "idle" or "fetching": position of the getConfigs() call
  cmNow,        \* the local `now` of the pending getConfigs() call
  cmPrev,       \* history: Some([at, body]) of the latest successful fetch
  cmLast,       \* history: Some(record) describing the latest finished call
  cmRefresh,    \* history: Null, or Some(cache held when refreshConfigs was called)
  httpRequests, \* history: number of HTTP requests issued to the feed
  rMax,         \* executeWithRetry: maxRetries
  rBase,        \* executeWithRetry: baseDelay
  rAttempt,     \* executeWithRetry: the loop variable `attempt`
  rPc,          \* "call", "wait", "returned" or "raised"
  rLastError,   \* executeWithRetry: lastError (Null or Some(message))
  rCalls,       \* history: number of invocations of the operation
  rWaits,       \* history: the delays waited, in order
  rRaised,      \* Null or Some([n, last]): the aggregated error raised
  metrics,      \* HealthMonitor.metrics
  recordRunCalls, \* history: number of recordRun calls
  runtimeSum,   \* history: sum of the runtimes passed to recordRun
  page,         \* texts of the available cells of the page, in page order
  slotPc,       \* "search", "returned", "null" or "raised"
  slotStrat,    \* findAvailableSlots: index of the strategy (part_004)
  slotRetry,    \* findAvailableSlots: the retry counter
  slotEvals,    \* history: page evaluations made by the search
  slotSelected, \* Null or Some(text): the date returned
  slotClicked,  \* Null or Some(text): the cell clicked
  fIn,          \* the array the active filter is applied to
  fOut,         \* Null or Some(array): the filtered array
  feed,         \* the array the configuration feed holds
  hostClock,    \* <<local hour, getTimezoneOffset() in minutes>> of the host
  cyc,          \* the main() invocations so far, one record each
  queue,        \* the pLimit queue: <<cycle, position>> of the waiting jobs
  bkPc,         \* position of the main() invocation followed step by step
  bkSelected,   \* the rows that invocation hands to bookAppointment
  bkAttempt,    \* executeWithRetry: attempt number of the running execution
  bkStart,      \* bookAppointment: startTime
  bkBrowser,    \* bookAppointment: "none", "open" or "closed"
  bkSuccess,    \* bookAppointment: the flag `success` (part_006)
  bkSlotFound,  \* bookAppointment: a slot was found (`slotFound` in part_004)
  bkPolls,      \* bookAppointment: the poll counter `attempt` (part_004)
  bkLease,      \* bookAppointment: "none", "held" after getNumber, "cancelCalled"
  bkReached,    \* the execution saw the confirmation page
  bkPending,    \* Null or Some(kind): the exception being propagated
  bkLog,        \* history: one record per ended execution of bookAppointment
  bkMain,       \* how main() ended: "running", "returned", "reported", "escaped"
  bkSendFailed, \* history: some bot.telegram.sendMessage call failed
  bkEnvFailed,  \* history: some step failed for a reason outside the program
  otpResolver,  \* global.smsCodeResolver: Null or Some(attempt whose promise it resolves)
  otpAtt,       \* the automated bookings started by /auto, one record each
  otpLast,      \* history: Null or Some(record) of the latest /code command
  otpCmds,      \* history: number of /code commands handled
  otpTimers,    \* part_005: completion timers armed by /code
  monMonitoring, \* SlotMonitor.monitoring
  monLastAlert,  \* SlotMonitor.lastSlotAlert: Null or Some(time)
  monLoops,      \* the monitorLoop() calls made so far, one record each
  monAlerts,     \* history: the times at which a slot-found alert was decided
  monRestart,    \* history: "none", "stopped", "restarted" since the last detection
  monLastDetect, \* history: Null or Some(record) of the latest detected slot
  monCmds,       \* history: number of /monitor and /stop commands handled
  gwSent,        \* guided workflow: the instruction messages sent, with their cause
  gwTimers,      \* guided workflow: the pending setTimeout callbacks
  gwCmds,        \* history: number of guided-workflow commands handled
  suEnv,         \* start-up: which environment variables are set
  suPc,          \* start-up: "validate", "running" or "exited"
  suExit,        \* start-up: Null or Some(exit status)
  suActs,        \* history: network requests and chat messages made
  enAttempts,    \* slot loop of bookAppointment: the counter `attempts`
  enPersonal,    \* history: Null or Some(slot selected when data entry began)
  smPc,          \* SMSManager.waitForSMS: "polling", "returned", "gaveUp", "timedOut", "raised"
  smAttempts,    \* waitForSMS: the counter `attempts` (part_004)
  smElapsed,     \* waitForSMS: Date.now() - start
  smFails,       \* history: failed polls since the last poll that succeeded
  hbEnv,         \* checkBalances: what each provider's fetch and warning will do
  hbPc,          \* checkBalances: the provider whose check is next (4: returned)
  hbChecks,      \* checkBalances: the array `checks`
  mcBooking,     \* part_005: global.bookingInProgress
  mcTimers,      \* part_005: due times of the completion timers armed by /code
  mcLog          \* history: what the /code timers and the loop did to the monitor

cfgVars == <<cache, cacheExpiry, cacheTtl, cmPc, cmNow, cmPrev, cmLast, cmRefresh, httpRequests>>
clockVars == <<now, ticks>>
retryVars == <<rMax, rBase, rAttempt, rPc, rLastError, rCalls, rWaits, rRaised>>
healthVars == <<metrics, recordRunCalls, runtimeSum>>
slotVars == <<page, slotPc, slotStrat, slotRetry, slotEvals, slotSelected, slotClicked>>
filterVars == <<fIn, fOut>>
mainVars == <<feed, hostClock, cyc, queue>>
gwVars == <<gwSent, gwTimers, gwCmds>>
suVars == <<suEnv, suPc, suExit, suActs>>
enVars == <<enAttempts, enPersonal>>
smVars == <<smPc, smAttempts, smElapsed, smFails>>
hbVars == <<hbEnv, hbPc, hbChecks>>
mcVars == <<mcBooking, mcTimers, mcLog>>
monVars == <<monMonitoring, monLastAlert, monLoops, monAlerts, monRestart, monLastDetect, monCmds>>
otpVars == <<otpResolver, otpAtt, otpLast, otpCmds, otpTimers>>
bkVars == <<bkPc, bkSelected, bkAttempt, bkStart, bkBrowser, bkSuccess, bkSlotFound,
            bkPolls, bkLease, bkReached, bkPending, bkLog, bkMain, bkSendFailed, bkEnvFailed>>

----------------------------------------------------------------------------
(* Bounds of the model *)
MaxTicks == 5
MaxFeed == 3
MaxRequests == 3
MaxRetryArg == 4
MaxRuns == 4
MaxCells == 3
MaxEvals == 4
MaxCycles == 2
MaxSheet == 1

(* Clock steps: 1 ms, 100 s and one TTL less 1 ms, so that T + 299999,     *)
(* T + 300000 and T + 300001 are all reached.                              *)
Ticks == {1, 100000, 299999}

----------------------------------------------------------------------------
(* Rows of the configuration feed.  A field that is absent from the row is *)
(* Null.  Strings are sequences of characters so that toLowerCase() is a   *)
(* real conversion.                                                        *)
Str(s) == [t |-> "str", s |-> s, b |-> FALSE]
Bool(b) == [t |-> "bool", s |-> <<>>, b |-> b]

Row(id, active, status, priority, window) ==
  [id |-> id, active |-> active, status |-> status, priority |-> priority,
   activeWindow |-> window]

RowYes == Row(1, Some(Str(<<"y", "e", "s">>)), Null, Some(1), Null)
RowUpper == Row(2, Some(Str(<<"Y", "E", "S">>)), Null, Null, Some(<<8, 14>>))
RowNo == Row(3, Some(Str(<<"n", "o">>)), Null, Some(1), Null)
RowAbsent == Row(4, Null, Some(Str(<<"y", "e", "s">>)), Some(5), Null)
RowCap == Row(5, Some(Str(<<"Y", "e", "s">>)), Null, Some(3), Null)
RowFalse == Row(6, Some(Bool(FALSE)), Null, Some(0), Null)

(* Bodies the feed answers with in the ConfigManager specification.        *)
SampleFeeds == {<<>>, <<RowYes>>, <<RowNo, RowYes>>}

----------------------------------------------------------------------------
(* ConfigManager, part_004:53-75 and part_006:67-88                        *)
DefaultCacheTtl == 300000
FetchTimeout == 30000

(* What the HTTP GET can come back with: a 2xx response with a JSON array, *)
(* a 2xx response whose body is the JSON value null, a non-2xx status, a   *)
(* timeout, or a body that does not parse.                                 *)
Resp(kind, body) == [kind |-> kind, body |-> body]
FailKinds == {"http", "timeout", "badjson"}
Responses(feeds) ==
  {Resp("ok", f) : f \in feeds} \cup {Resp(k, <<>>) : k \in FailKinds \cup {"nullbody"}}

(* `this.cache && now < this.cacheExpiry` (an empty array is truthy)       *)
CacheHitAlways(c, t, expiry) == c # Null
CacheHit(c, t, expiry) == c # Null /\ t < expiry

(* The catch block of getConfigs: the value returned (Null when the error  *)
(* is rethrown) for the cache held at that point.                          *)
StaleFallbackNone(c) == Null
StaleFallbackEmpty(c) == IF c # Null THEN c ELSE Some(<<>>)
StaleFallback(c) == IF c # Null THEN c ELSE Null

CallRec(at, http, resp, out, err, prev, before) ==
  [at |-> at, http |-> http, resp |-> resp, out |-> out, err |-> err,
   prev |-> prev, cacheBefore |-> before]

CfgInit ==
  /\ cache = Null /\ cacheExpiry = 0 /\ cacheTtl = DefaultCacheTtl
  /\ cmPc = "idle" /\ cmNow = 0 /\ cmPrev = Null /\ cmLast = Null /\ cmRefresh = Null
  /\ httpRequests = 0

(* getConfigs() up to its first await: either the cache is returned or the *)
(* HTTP request is issued.                                                 *)
GetConfigs ==
  /\ cmPc = "idle"
  /\ IF CacheHit(cache, now, cacheExpiry)
       THEN /\ cmLast' = Some(CallRec(now, FALSE, "none", cache, "none", cmPrev, cache))
            /\ UNCHANGED <<cmPc, cmNow, httpRequests>>
       ELSE /\ httpRequests < MaxRequests
            /\ cmPc' = "fetching"
            /\ cmNow' = now
            /\ httpRequests' = httpRequests + 1
            /\ UNCHANGED cmLast
  /\ cmRefresh' = Null
  /\ UNCHANGED <<cache, cacheExpiry, cacheTtl, cmPrev>>

(* refreshConfigs() of part_004:74 up to the first await of the getConfigs *)
(* it calls: the cache is dropped, so the request is always issued         *)
RefreshConfigs ==
  /\ variant = "p004"
  /\ cmPc = "idle"
  /\ httpRequests < MaxRequests
  /\ cache' = Null /\ cacheExpiry' = 0
  /\ ~CacheHit(Null, now, 0)
  /\ cmPc' = "fetching"
  /\ cmNow' = now
  /\ httpRequests' = httpRequests + 1
  /\ cmRefresh' = Some(cache)
  /\ UNCHANGED <<cacheTtl, cmPrev, cmLast>>

(* The rest of getConfigs(): the response arrives.  A null body is stored  *)
(* in this.cache before `configs.length` throws.                           *)
FetchRespond(r) ==
  /\ cmPc = "fetching"
  /\ cmPc' = "idle"
  /\ IF r.kind = "ok"
       THEN /\ cache' = Some(r.body)
            /\ cacheExpiry' = cmNow + cacheTtl
            /\ cmPrev' = Some([at |-> cmNow, body |-> r.body])
            /\ cmLast' = Some(CallRec(cmNow, TRUE, r.kind, Some(r.body), "none", cmPrev, cache))
       ELSE LET held == IF r.kind = "nullbody" THEN Null ELSE cache
                out == StaleFallback(held)
            IN /\ cache' = held
               /\ cacheExpiry' = IF r.kind = "nullbody" THEN cmNow + cacheTtl ELSE cacheExpiry
               /\ cmPrev' = cmPrev
               /\ cmLast' = Some(CallRec(cmNow, TRUE, r.kind, out,
                                         IF out = Null THEN r.kind ELSE "none", cmPrev, cache))
  /\ UNCHANGED <<cacheTtl, cmNow, cmRefresh, httpRequests>>

(* Time passes; a pending fetch is answered within its 30 s timeout.       *)
Tick ==
  /\ ticks < MaxTicks
  /\ \E d \in Ticks :
       /\ cmPc = "fetching" => now + d - cmNow <= FetchTimeout
       /\ now' = now + d
  /\ ticks' = ticks + 1

----------------------------------------------------------------------------
(* RetryManager.executeWithRetry, part_004:128-146 (exponential) and       *)
(* part_006:130-144 (linear)                                               *)
RECURSIVE Pow2(_)
Pow2(n) == IF n = 0 THEN 1 ELSE 2 * Pow2(n - 1)

BaseDelays == {1000, 250}
OpErrors == {"E1", "E2"}

(* the delay slept after the failure of attempt number `attempt`           *)
RetryDelayFlat(v, base, attempt) == base
RetryDelay(v, base, attempt) ==
  IF v = "p004" THEN base * Pow2(attempt - 1) ELSE base * attempt

(* `if (attempt < maxRetries)` guarding the sleep                          *)
SleepsAfterAlways(attempt, max) == TRUE
SleepsAfter(attempt, max) == attempt < max

RetryIdle ==
  /\ rMax = 3 /\ rBase = 1000 /\ rAttempt = 1 /\ rPc = "idle"
  /\ rLastError = Null /\ rCalls = 0 /\ rWaits = <<>> /\ rRaised = Null

RetryInit ==
  /\ rMax \in 1..MaxRetryArg /\ rBase \in BaseDelays
  /\ rAttempt = 1 /\ rPc = "call"
  /\ rLastError = Null /\ rCalls = 0 /\ rWaits = <<>> /\ rRaised = Null

(* `return await operation()` when the operation resolves                  *)
RetryOpSucceeds ==
  /\ rPc = "call"
  /\ rCalls' = rCalls + 1
  /\ rPc' = "returned"
  /\ UNCHANGED <<rMax, rBase, rAttempt, rLastError, rWaits, rRaised>>

(* the catch block, and the throw after the loop when this was the last    *)
(* attempt                                                                 *)
RetryOpFails(e) ==
  /\ rPc = "call"
  /\ rCalls' = rCalls + 1
  /\ rLastError' = Some(e)
  /\ IF SleepsAfter(rAttempt, rMax)
       THEN /\ rWaits' = Append(rWaits, RetryDelay(variant, rBase, rAttempt))
            /\ rPc' = "wait"
            /\ UNCHANGED <<rAttempt, rRaised>>
       ELSE /\ rAttempt' = rAttempt + 1
            /\ rPc' = IF rAttempt + 1 <= rMax THEN "call" ELSE "raised"
            /\ rRaised' = IF rAttempt + 1 <= rMax THEN rRaised
                          ELSE Some([n |-> rMax, last |-> e])
            /\ UNCHANGED rWaits
  /\ UNCHANGED <<rMax, rBase>>

(* the setTimeout fires: next iteration of the for loop                    *)
RetryWake ==
  /\ rPc = "wait"
  /\ rAttempt' = rAttempt + 1
  /\ rPc' = IF rAttempt + 1 <= rMax THEN "call" ELSE "raised"
  /\ rRaised' = IF rAttempt + 1 <= rMax THEN rRaised
                ELSE Some([n |-> rMax, last |-> rLastError[1]])
  /\ UNCHANGED <<rMax, rBase, rLastError, rCalls, rWaits>>

----------------------------------------------------------------------------
(* HealthMonitor.recordRun, part_004:197-203 and part_006:165-171.         *)
(* avgRuntime is kept as an exact fraction <<numerator, denominator>> in   *)
(* lowest terms.                                                           *)
RECURSIVE Gcd(_, _)
Gcd(a, b) == IF b = 0 THEN a ELSE Gcd(b, a % b)

Frac(n, d) == LET g == Gcd(n, d) IN IF g = 0 THEN <<0, 1>> ELSE <<n \div g, d \div g>>

Runtimes == {10, 20, 30}

MetricsInit ==
  [totalRuns |-> 0, successfulBookings |-> 0, failedBookings |-> 0,
   avgRuntime |-> <<0, 1>>, lastRun |-> Null]

RecordRunHalfMean(m, success, runtime, t) ==
  LET n == m.totalRuns + 1 IN
  [totalRuns |-> n,
   successfulBookings |-> IF success THEN m.successfulBookings + 1 ELSE m.successfulBookings,
   failedBookings |-> IF success THEN m.failedBookings ELSE m.failedBookings + 1,
   avgRuntime |-> IF n = 1 THEN <<runtime, 1>>
                  ELSE Frac(m.avgRuntime[1] + runtime * m.avgRuntime[2],
                            m.avgRuntime[2] * 2),
   lastRun |-> Some(t)]

RecordRunSkipFailed(m, success, runtime, t) ==
  LET n == m.totalRuns + 1 IN
  [totalRuns |-> n,
   successfulBookings |-> IF success THEN m.successfulBookings + 1 ELSE m.successfulBookings,
   failedBookings |-> m.failedBookings,
   avgRuntime |-> IF n = 1 THEN <<runtime, 1>>
                  ELSE Frac(m.avgRuntime[1] * (n - 1) + runtime * m.avgRuntime[2],
                            m.avgRuntime[2] * n),
   lastRun |-> Some(t)]

RecordRun(m, success, runtime, t) ==
  LET n == m.totalRuns + 1 IN
  [totalRuns |-> n,
   successfulBookings |-> IF success THEN m.successfulBookings + 1 ELSE m.successfulBookings,
   failedBookings |-> IF success THEN m.failedBookings ELSE m.failedBookings + 1,
   avgRuntime |-> IF n = 1 THEN <<runtime, 1>>
                  ELSE Frac(m.avgRuntime[1] * (n - 1) + runtime * m.avgRuntime[2],
                            m.avgRuntime[2] * n),
   lastRun |-> Some(t)]

HealthInit ==
  /\ metrics = MetricsInit /\ recordRunCalls = 0 /\ runtimeSum = 0

(* one call healthMonitor.recordRun(success, runtime)                      *)
CallRecordRun(success, runtime) ==
  /\ recordRunCalls < MaxRuns
  /\ metrics' = RecordRun(metrics, success, runtime, now)
  /\ recordRunCalls' = recordRunCalls + 1
  /\ runtimeSum' = runtimeSum + runtime

----------------------------------------------------------------------------
(* The active predicate of the scheduler,                                  *)
(*   config.active && config.active.toString().toLowerCase() === 'yes'     *)
(* part_002:300-303, bot.js:174-176                                        *)
UpperLetters == <<"A", "B", "C", "D", "E", "F", "G", "H", "I", "J", "K", "L", "M",
                  "N", "O", "P", "Q", "R", "S", "T", "U", "V", "W", "X", "Y", "Z">>
LowerLetters == <<"a", "b", "c", "d", "e", "f", "g", "h", "i", "j", "k", "l", "m",
                  "n", "o", "p", "q", "r", "s", "t", "u", "v", "w", "x", "y", "z">>

LowerChar(c) ==
  IF \E i \in 1..26 : UpperLetters[i] = c
    THEN LowerLetters[CHOOSE i \in 1..26 : UpperLetters[i] = c]
    ELSE c

ToLowerCase(s) == [i \in 1..Len(s) |-> LowerChar(s[i])]

(* value.toString() of a string or a boolean                               *)
JsToString(v) ==
  IF v.t = "str" THEN v.s
  ELSE IF v.b THEN <<"t", "r", "u", "e">> ELSE <<"f", "a", "l", "s", "e">>

(* JavaScript truthiness of a string or a boolean                          *)
Truthy(v) == IF v.t = "str" THEN v.s # <<>> ELSE v.b

IsActive(row) ==
  /\ row.active # Null
  /\ Truthy(row.active[1])
  /\ ToLowerCase(JsToString(row.active[1])) = <<"y", "e", "s">>

Rows == {RowYes, RowUpper, RowNo, RowAbsent, RowCap, RowFalse}

RECURSIVE SeqsUpTo(_, _)
SeqsUpTo(S, n) ==
  IF n = 0 THEN {<<>>}
  ELSE LET shorter == SeqsUpTo(S, n - 1)
       IN shorter \cup {Append(q, x) : q \in {r \in shorter : Len(r) = n - 1}, x \in S}

FilterInit == fIn \in SeqsUpTo(Rows, MaxFeed) /\ fOut = Null
FilterIdle == fIn = <<>> /\ fOut = Null

(* configs.filter(config => <active predicate>)                            *)
ApplyActiveFilter ==
  /\ fOut = Null
  /\ fOut' = Some(SelectSeq(fIn, IsActive))
  /\ UNCHANGED fIn

----------------------------------------------------------------------------
(* findAvailableSlots: part_004:209-247, part_006:176-202, part_002:85-131 *)
(* with the click of part_002:224-230.  A cell text DD/MM/YYYY is the      *)
(* triple of its three numbers in the order they are written.  The page    *)
(* holds the cells that carry an available class and a date text; the      *)
(* three query strategies of part_004 are taken to see the same cells.     *)
DateTexts == {<<5, 10, 2025>>, <<1, 10, 2025>>, <<12, 10, 2025>>,
              <<1, 11, 2025>>, <<2, 10, 2025>>, <<15, 9, 2025>>}

NaN == -1

(* new Date("DD/MM/YYYY") in the page: the string is read month first, and *)
(* a first number above 12 gives an Invalid Date.  The key orders dates as *)
(* the millisecond timestamps do.                                          *)
UsTimestamp(t) == IF t[1] > 12 THEN NaN ELSE t[3] * 10000 + t[1] * 100 + t[2]

(* new Date(text.split('/').reverse().join('-')): an ISO date              *)
IsoTimestamp(t) == t[3] * 10000 + t[2] * 100 + t[1]

RECURSIVE InsertByKey(_, _)
InsertByKey(x, s) ==
  IF s = <<>> THEN <<x>>
  ELSE IF x[1] < Head(s)[1] THEN <<x>> \o s
  ELSE <<Head(s)>> \o InsertByKey(x, Tail(s))

(* Array.prototype.sort with a consistent numeric comparator (stable):    *)
(* a sequence of <<key, value>> pairs ordered by key                       *)
RECURSIVE SortPairs(_)
SortPairs(s) ==
  IF s = <<>> THEN <<>>
  ELSE InsertByKey(s[Len(s)], SortPairs(SubSeq(s, 1, Len(s) - 1)))

Values(pairs) == [i \in 1..Len(pairs) |-> pairs[i][2]]

(* the orders .sort((a, b) => a.timestamp - b.timestamp) can leave the     *)
(* cells in: the stable ascending order, or, when a timestamp is NaN and   *)
(* the comparator is therefore inconsistent, an implementation-defined     *)
(* order                                                                   *)
SortByUsTimestamp(cells) ==
  IF Len(cells) >= 2 /\ \E i \in 1..Len(cells) : UsTimestamp(cells[i]) = NaN
    THEN {[i \in 1..Len(cells) |-> cells[p[i]]] : p \in Permutations(1..Len(cells))}
    ELSE {Values(SortPairs([i \in 1..Len(cells) |-> <<UsTimestamp(cells[i]), cells[i]>>]))}

SortByIsoTimestamp(cells) ==
  Values(SortPairs([i \in 1..Len(cells) |-> <<IsoTimestamp(cells[i]), cells[i]>>]))

(* the number of query strategies the search goes through: the array of   *)
(* part_004:210-229, the single query of part_006:180-185                  *)
StrategyCount(v) == IF v = "p004" THEN 3 ELSE 1

SlotInit ==
  /\ page \in SeqsUpTo(DateTexts, MaxCells)
  /\ slotPc = "search" /\ slotStrat = 0 /\ slotRetry = 0 /\ slotEvals = 0
  /\ slotSelected = Null /\ slotClicked = Null

SlotIdle ==
  /\ page = <<>>
  /\ slotPc = "idle" /\ slotStrat = 0 /\ slotRetry = 0 /\ slotEvals = 0
  /\ slotSelected = Null /\ slotClicked = Null

(* part_004: one pass of the inner loop.  `throws` is whether the page     *)
(* evaluation fails.                                                       *)
FindSlots004(throws) ==
  /\ variant = "p004" /\ slotPc = "search"
  /\ slotEvals' = slotEvals + 1
  /\ IF ~throws /\ Len(page) > 0
       THEN \E sorted \in SortByUsTimestamp(page) :
              /\ slotSelected' = Some(sorted[1])
              /\ slotClicked' = Some(sorted[1])
              /\ slotPc' = "returned"
              /\ UNCHANGED <<slotStrat, slotRetry>>
       ELSE /\ slotRetry' = IF slotRetry = 2 THEN 0 ELSE slotRetry + 1
            /\ slotStrat' = IF slotRetry = 2 THEN slotStrat + 1 ELSE slotStrat
            /\ slotPc' = IF slotRetry = 2 /\ slotStrat = 2 THEN "raised" ELSE "search"
            /\ UNCHANGED <<slotSelected, slotClicked>>
  /\ UNCHANGED page

(* part_006: one pass of the while loop.  The first available cell in page *)
(* order is taken; a pass that finds no cell does not count as a retry.    *)
FindSlots006(throws) ==
  /\ variant = "p006" /\ slotPc = "search"
  /\ slotEvals < MaxEvals
  /\ slotEvals' = slotEvals + 1
  /\ IF throws
       THEN /\ slotRetry' = slotRetry + 1
            /\ slotPc' = IF slotRetry + 1 = 3 THEN "raised" ELSE "search"
            /\ UNCHANGED <<slotSelected, slotClicked>>
       ELSE IF Len(page) > 0
         THEN /\ slotSelected' = Some(page[1])
              /\ slotClicked' = Some(page[1])
              /\ slotPc' = "returned"
              /\ UNCHANGED slotRetry
         ELSE UNCHANGED <<slotRetry, slotPc, slotSelected, slotClicked>>
  /\ UNCHANGED <<page, slotStrat>>

(* part_002: waitForSelector, one evaluation, and the caller's click on    *)
(* the cell whose text is the returned date.  Any failure returns null.    *)
FindSlots002(throws) ==
  /\ variant = "p002" /\ slotPc = "search"
  /\ IF Len(page) = 0
       THEN /\ slotPc' = "null"
            /\ UNCHANGED <<slotEvals, slotSelected, slotClicked>>
       ELSE /\ slotEvals' = slotEvals + 1
            /\ IF throws
                 THEN /\ slotPc' = "null"
                      /\ UNCHANGED <<slotSelected, slotClicked>>
                 ELSE /\ slotSelected' = Some(SortByIsoTimestamp(page)[1])
                      /\ slotClicked' = Some(SortByIsoTimestamp(page)[1])
                      /\ slotPc' = "returned"
  /\ UNCHANGED <<page, slotStrat, slotRetry>>

----------------------------------------------------------------------------
(* main() and the dispatch of booking attempts: part_004:354-379,          *)
(* part_006:278-301, part_002:293-348.  A booking attempt is taken as a    *)
(* whole here: it starts, and it ends having reached the confirmation step *)
(* or not.                                                                 *)
MainRows == {RowUpper, RowNo, RowAbsent}
(* host clocks: 13:00 and 14:00 on a UTC host *)
HostClocks == {<<13, 0>>, <<14, 0>>}
(* the sheet of the priority example: priorities absent (3), 1, 5, 1 *)
ExampleSheet == <<RowUpper, RowYes, RowAbsent, RowNo>>
DefaultMaxRetries == 3
DefaultPriority == 3
SliceLimit == 5

(* pLimit(3) in part_004:18 and part_006:29 *)
Concurrency == 3

(* `a.priority || 3`: an absent priority and the priority 0 count as 3 *)
PriorityOrZero(row) == IF row.priority = Null THEN 0 ELSE row.priority[1]
EffPriority(row) ==
  IF row.priority = Null \/ row.priority[1] = 0 THEN DefaultPriority ELSE row.priority[1]

(* now.getHours() + now.getTimezoneOffset() / 60 + 1, in minutes *)
CurrentHourMinutes(clk) == clk[1] * 60 + clk[2] + 60

(* the activeWindow filter of part_004:361-365 *)
InWindow(row, clk) ==
  \/ row.activeWindow = Null
  \/ /\ CurrentHourMinutes(clk) >= row.activeWindow[1][1] * 60
     /\ CurrentHourMinutes(clk) <= row.activeWindow[1][2] * 60

Indices(body) == [i \in 1..Len(body) |-> i]

RECURSIVE SelectIdx(_, _, _)
SelectIdx(idxs, body, keep) ==
  IF idxs = <<>> THEN <<>>
  ELSE IF keep[Head(idxs)] THEN <<Head(idxs)>> \o SelectIdx(Tail(idxs), body, keep)
  ELSE SelectIdx(Tail(idxs), body, keep)

(* The activeWindow filter on its own.  A host clock is here the triple    *)
(* <<local hour, getTimezoneOffset() in minutes, local minute>>; the hosts *)
(* are at UTC, UTC+1, UTC+2, UTC-5 and UTC+5:30.                           *)
RowEarly == Row(7, Some(Str(<<"y", "e", "s">>)), Null, Some(2), Some(<<0, 5>>))
RowLate == Row(8, Some(Str(<<"y", "e", "s">>)), Null, Some(2), Some(<<20, 23>>))
RowNine == Row(9, Some(Str(<<"y", "e", "s">>)), Null, Some(2), Some(<<9, 14>>))
WindowRows == {RowYes, RowUpper, RowEarly, RowLate, RowNine}
ZoneOffsets == {0, -60, -120, 300, -330}
WindowClocks == {<<h, off, m>> : h \in 0..23, off \in ZoneOffsets, m \in {0, 40}}

WindowInit == fIn \in {<<r>> : r \in WindowRows} /\ fOut = Null /\ hostClock \in WindowClocks

(* configs.filter(c => { if (!c.activeWindow) return true; ... })           *)
ApplyWindowFilter ==
  /\ fOut = Null
  /\ fOut' = Some(SelectSeq(fIn, LAMBDA row : InWindow(row, hostClock)))
  /\ UNCHANGED <<fIn, hostClock>>

(* configs.sort((a, b) => (a.priority || 3) - (b.priority || 3)), on the   *)
(* positions of the rows in the fetched array                              *)
SortByPriorityNoDefault(idxs, body) ==
  Values(SortPairs([i \in 1..Len(idxs) |-> <<PriorityOrZero(body[idxs[i]]), idxs[i]>>]))
SortByPriority(idxs, body) ==
  Values(SortPairs([i \in 1..Len(idxs) |-> <<EffPriority(body[idxs[i]]), idxs[i]>>]))

Min(a, b) == IF a < b THEN a ELSE b

(* the rows main() hands to bookAppointment, in order, as positions in the *)
(* fetched array                                                           *)
Selected(v, body, clk) ==
  IF v = "p002"
    THEN SortByPriority(SelectIdx(Indices(body), body, [i \in 1..Len(body) |-> IsActive(body[i])]), body)
  ELSE IF v = "p004"
    THEN LET inWin == SelectIdx(Indices(body), body, [i \in 1..Len(body) |-> InWindow(body[i], clk)])
             sorted == SortByPriority(inWin, body)
         IN SubSeq(sorted, 1, Min(SliceLimit, Len(sorted)))
  ELSE Indices(body)

(* The selection of main() on its own: the rows of the fetched array that  *)
(* pass the filters of the cycle, and the rows handed to bookAppointment.  *)
MaxSelectRows == 6

PassesFilters(v, row, clk) ==
  IF v = "p002" THEN IsActive(row)
  ELSE IF v = "p004" THEN InWindow(row, clk)
  ELSE TRUE

SelectInit ==
  /\ fIn \in SeqsUpTo({RowYes, RowNo}, MaxSelectRows) /\ fOut = Null
  /\ feed = <<>> /\ hostClock = <<13, 0>> /\ cyc = <<>> /\ queue = <<>>

(* filter, sort, slice: the array that is mapped over the limiter *)
SelectRows ==
  /\ fOut = Null
  /\ fOut' = Some(Selected(variant, fIn, hostClock))
  /\ UNCHANGED fIn

NewCycle(v) ==
  [pc |-> IF v = "p006" THEN "telegram" ELSE "fetching",
   fetched |-> "none", got |-> Null, configs |-> <<>>, st |-> <<>>, att |-> <<>>,
   t0 |-> <<>>,
   started |-> <<>>, pos |-> 0, mainError |-> Null, notice |-> "none"]

MainInit ==
  /\ feed \in SeqsUpTo(MainRows, MaxSheet) \cup {ExampleSheet}
  /\ hostClock \in IF variant = "p004" THEN HostClocks ELSE {<<13, 0>>}
  /\ cyc = <<>> /\ queue = <<>>

MainIdle ==
  /\ feed = <<>> /\ hostClock = <<0, 0>> /\ cyc = <<>> /\ queue = <<>>

(* main() is invoked: at start-up and by every firing of the 10-minute     *)
(* interval timer, whether or not the booking attempts of earlier          *)
(* invocations have finished.  The start-up steps of an invocation (the    *)
(* chat test and the fetch with its 30 s timeout) are over by then.        *)
MainStart ==
  /\ Len(cyc) < MaxCycles
  /\ \A c \in 1..Len(cyc) : cyc[c].pc \notin {"telegram", "fetching"}
  /\ cyc' = Append(cyc, NewCycle(variant))
  /\ UNCHANGED <<feed, hostClock, queue>>

(* part_006: testTelegramConnection() *)
MainTelegramTest(c, ok) ==
  /\ variant = "p006" /\ c \in 1..Len(cyc) /\ cyc[c].pc = "telegram"
  /\ cyc' = [cyc EXCEPT ![c].pc = IF ok THEN "fetching" ELSE "done"]
  /\ UNCHANGED <<feed, hostClock, queue>>

(* `new ConfigManager(...)` and `await configManager.getConfigs()` of this *)
(* invocation, then the filters, the sort and the hand-over of the jobs.   *)
(* The instance is new, so its cache is null and its expiry 0.             *)
MainFetch(c, r) ==
  /\ c \in 1..Len(cyc) /\ cyc[c].pc = "fetching"
  /\ ~CacheHit(Null, now, 0)
  /\ LET got == IF r.kind = "ok" THEN Some(r.body)
                ELSE IF variant = "p002" THEN Null
                ELSE StaleFallback(Null)
     IN IF got = Null
          THEN /\ cyc' = [cyc EXCEPT ![c].pc = "done", ![c].fetched = r.kind,
                                     ![c].mainError = Some(r.kind)]
               /\ UNCHANGED queue
          ELSE LET sel == Selected(variant, got[1], hostClock)
                   n == Len(sel)
                   empty == IF variant = "p006" THEN Len(got[1]) = 0 ELSE n = 0
               IN /\ cyc' = [cyc EXCEPT
                       ![c].fetched = r.kind,
                       ![c].got = got,
                       ![c].configs = sel,
                       ![c].st = [k \in 1..n |-> IF variant = "p002" THEN "pending" ELSE "queued"],
                       ![c].att = [k \in 1..n |-> 0],
                       ![c].t0 = [k \in 1..n |-> 0],
                       ![c].pos = 1,
                       ![c].notice = IF empty /\ variant # "p004" THEN "noactive" ELSE "none",
                       ![c].pc = IF n = 0 THEN "done" ELSE "running"]
                  /\ queue' = IF variant = "p002" THEN queue
                              ELSE queue \o [k \in 1..n |-> <<c, k>>]
  /\ UNCHANGED <<feed, hostClock>>

Busy(c) == {k \in 1..Len(cyc[c].st) : cyc[c].st[k] \in {"running", "backoff"}}

RECURSIVE SumOver(_, _)
SumOver(f, n) == IF n = 0 THEN 0 ELSE f[n] + SumOver(f, n - 1)

(* p-limit's activeCount *)
ActiveCount == SumOver([c \in 1..Len(cyc) |-> Cardinality(Busy(c))], Len(cyc))

(* the size of the limiter the program creates: pLimit(1) in part_002:37 *)
LimiterSize(v) == IF v = "p002" THEN 1 ELSE Concurrency

(* the executions of bookAppointment in progress: each opens a browser     *)
(* session in its try block and closes it in its finally block             *)
OpenSessions ==
  SumOver([c \in 1..Len(cyc) |->
             Cardinality({k \in 1..Len(cyc[c].st) : cyc[c].st[k] = "running"})], Len(cyc))

(* p-limit starts the job at the head of its queue when a place is free    *)
TaskStart ==
  /\ variant \in {"p004", "p006"}
  /\ queue # <<>>
  /\ ActiveCount < Concurrency
  /\ LET c == Head(queue)[1]
         k == Head(queue)[2]
     IN cyc' = [cyc EXCEPT ![c].st[k] = "running", ![c].att[k] = 1, ![c].t0[k] = now,
                           ![c].started = Append(@, cyc[c].configs[k])]
  /\ queue' = Tail(queue)
  /\ UNCHANGED <<feed, hostClock>>

(* part_002: the for loop calls bookAppointment for the next row *)
LoopStart ==
  /\ variant = "p002"
  /\ \E c \in 1..Len(cyc) :
       /\ cyc[c].pc = "running"
       /\ cyc[c].pos <= Len(cyc[c].configs)
       /\ cyc[c].st[cyc[c].pos] = "pending"
       /\ cyc' = [cyc EXCEPT ![c].st[cyc[c].pos] = "running", ![c].att[cyc[c].pos] = 1,
                             ![c].t0[cyc[c].pos] = now,
                             ![c].started = Append(@, cyc[c].configs[cyc[c].pos])]
  /\ UNCHANGED <<feed, hostClock, queue>>

(* part_002: the state of main() after an attempt of its for loop ended.   *)
(* The try/catch inside the loop swallows the failure; variant without it  *)
(* first.                                                                  *)
LoopAfterNoCatch(pc, reached, last) == IF last \/ ~reached THEN "done" ELSE pc

LoopAfter(pc, reached, last) == IF last THEN "done" ELSE pc

AllSettled(st) == \A k \in 1..Len(st) : st[k] \in {"done", "failed"}

(* Math.round((Date.now() - startTime) / 1000) *)
RuntimeSeconds(start, end) == (end - start + 500) \div 1000

(* A booking attempt ends.  `reached` is whether it got to the             *)
(* confirmation step.                                                      *)
(* part_006: the error is caught inside bookAppointment and                *)
(*   recordRun(success, runtime) is called in the finally block.           *)
(* part_004: the finally block evaluates `!e` with no `e` in scope, so the *)
(*   attempt rejects with a ReferenceError before recordRun is called,     *)
(*   whether or not it reached the confirmation step (the two cases lead   *)
(*   to the same state and are taken once, as reached = FALSE);            *)
(*   executeWithRetry then sleeps and retries, or raises after the third   *)
(*   attempt, which rejects the Promise.all of main().                     *)
(* part_002: a failed attempt rethrows and the loop of main() catches it.  *)
BookEnd(c, k, reached) ==
  /\ c \in 1..Len(cyc) /\ k \in 1..Len(cyc[c].st) /\ cyc[c].st[k] = "running"
  /\ IF variant = "p006"
       THEN /\ LET st2 == [cyc[c].st EXCEPT ![k] = "done"]
               IN cyc' = [cyc EXCEPT ![c].st = st2,
                                     ![c].pc = IF AllSettled(st2) THEN "done" ELSE @]
            /\ metrics' = RecordRun(metrics, reached, RuntimeSeconds(cyc[c].t0[k], now), now)
            /\ recordRunCalls' = recordRunCalls + 1
            /\ runtimeSum' = runtimeSum + RuntimeSeconds(cyc[c].t0[k], now)
     ELSE IF variant = "p004"
       THEN /\ ~reached
            /\ IF SleepsAfter(cyc[c].att[k], DefaultMaxRetries)
                 THEN cyc' = [cyc EXCEPT ![c].st[k] = "backoff"]
                 ELSE cyc' = [cyc EXCEPT
                        ![c].st[k] = "failed",
                        ![c].mainError = IF cyc[c].pc = "running" THEN Some("booking") ELSE @,
                        ![c].pc = "done"]
            /\ UNCHANGED healthVars
     ELSE /\ LET last == cyc[c].pos = Len(cyc[c].configs)
             IN cyc' = [cyc EXCEPT
                    ![c].st[k] = IF reached THEN "done" ELSE "failed",
                    ![c].pos = @ + 1,
                    ![c].notice = IF last THEN "completed" ELSE @,
                    ![c].pc = LoopAfter(@, reached, last)]
          /\ UNCHANGED healthVars
  /\ UNCHANGED <<feed, hostClock, queue>>

(* part_004: the back-off sleep of executeWithRetry is over *)
TaskWake(c, k) ==
  /\ variant = "p004"
  /\ c \in 1..Len(cyc) /\ k \in 1..Len(cyc[c].st) /\ cyc[c].st[k] = "backoff"
  /\ cyc' = [cyc EXCEPT ![c].st[k] = "running", ![c].att[k] = @ + 1, ![c].t0[k] = now]
  /\ UNCHANGED <<feed, hostClock, queue>>

----------------------------------------------------------------------------
(* One main() invocation followed step by step through bookAppointment:    *)
(* part_006:204-297 and part_004:250-375 (part_004 read without the        *)
(* unmatched brace of line 271).  The feed holds one row.  Every awaited   *)
(* call that can fail is a step whose outcome the environment chooses.     *)
PollLimit == 100

(* the steps of the try block, in order *)
Pipeline(v) ==
  IF v = "p006"
    THEN <<"sendStart", "open", "navigate", "slots", "sendSlot", "getNumber", "waitSms", "cancelOrder",
          "confirm", "sendDone">>
    ELSE <<"open", "sendStart", "navigate", "slots", "sendSlot", "getNumber", "waitSms", "cancelOrder",
          "confirm", "sendDone">>

IsSend(pc) == pc \in {"sendStart", "sendSlot", "sendDone"}

PosOf(v, pc) == CHOOSE i \in 1..Len(Pipeline(v)) : Pipeline(v)[i] = pc

(* the step after pc; the finally block follows the last one *)
AfterStep(v, pc) ==
  IF PosOf(v, pc) = Len(Pipeline(v)) THEN "finally" ELSE Pipeline(v)[PosOf(v, pc) + 1]

AttemptFeeds == {<<RowYes>>, <<RowUpper>>}

BkLocalsInit ==
  /\ bkBrowser = "none" /\ bkSuccess = FALSE /\ bkSlotFound = FALSE /\ bkPolls = 0
  /\ bkLease = "none" /\ bkReached = FALSE /\ bkPending = Null

BkIdle ==
  /\ bkPc = "idle" /\ bkSelected = <<>> /\ bkAttempt = 0 /\ bkStart = 0
  /\ BkLocalsInit
  /\ bkLog = <<>> /\ bkMain = "running" /\ bkSendFailed = FALSE /\ bkEnvFailed = FALSE

BkInit ==
  /\ bkPc = "mainStart" /\ bkSelected = <<>> /\ bkAttempt = 0 /\ bkStart = 0
  /\ BkLocalsInit
  /\ bkLog = <<>> /\ bkMain = "running" /\ bkSendFailed = FALSE /\ bkEnvFailed = FALSE

(* the locals of a new execution of bookAppointment *)
BkEnter ==
  /\ bkStart' = now /\ bkBrowser' = "none" /\ bkSuccess' = FALSE /\ bkSlotFound' = FALSE
  /\ bkPolls' = 0 /\ bkLease' = "none" /\ bkReached' = FALSE /\ bkPending' = Null

bkLocals == <<bkStart, bkBrowser, bkSuccess, bkSlotFound, bkPolls, bkLease, bkReached, bkPending>>

(* main() begins: part_006 tests the chat first *)
BkMainStart(ok) ==
  /\ bkPc = "mainStart"
  /\ IF variant = "p006"
       THEN /\ bkPc' = IF ok THEN "fetch" ELSE "done"
            /\ bkMain' = IF ok THEN bkMain ELSE "returned"
            /\ bkSendFailed' = (bkSendFailed \/ ~ok)
            /\ bkEnvFailed' = (bkEnvFailed \/ ~ok)
       ELSE /\ ok
            /\ bkPc' = "fetch"
            /\ UNCHANGED <<bkMain, bkSendFailed, bkEnvFailed>>
  /\ UNCHANGED <<bkSelected, bkAttempt, bkLocals, bkLog>>

(* getConfigs() of a new ConfigManager, the filters and the hand-over *)
BkFetch(r) ==
  /\ bkPc = "fetch"
  /\ IF r.kind # "ok"
       THEN /\ bkPc' = "mainCatch"
            /\ bkEnvFailed' = TRUE
            /\ UNCHANGED <<bkSelected, bkAttempt, bkLocals, bkMain>>
       ELSE LET sel == Selected(variant, r.body, hostClock)
            IN /\ bkSelected' = sel
               /\ bkEnvFailed' = bkEnvFailed
               /\ IF Len(sel) = 0
                    THEN /\ bkPc' = "done" /\ bkMain' = "returned"
                         /\ UNCHANGED <<bkAttempt, bkLocals>>
                    ELSE /\ bkPc' = Pipeline(variant)[1] /\ bkAttempt' = 1
                         /\ BkEnter
                         /\ UNCHANGED bkMain
  /\ UNCHANGED <<bkLog, bkSendFailed>>


StepOutcomes == {"ok", "fail", "fatal"}

(* the phone lease after a step of the try block has returned: getNumber   *)
(* buys it, cancelOrder asks the provider to cancel it                     *)
LeaseAfter(lease, pc) ==
  IF pc = "getNumber" THEN "held"
  ELSE IF pc = "cancelOrder" THEN "cancelCalled"
  ELSE lease

(* durations of an execution of bookAppointment, in milliseconds *)
Elapsed == {400, 1600, 90000}

(* One awaited step of the try block.  "fail": the step throws.  In the    *)
(* polling loop of part_004 (part_004:297-309) a throw of                  *)
(* findAvailableSlots or of the send after it is caught inside the loop,   *)
(* which reloads the page and polls again; "fatal" is that throw followed  *)
(* by a throw of page.reload.  cancelOrder catches its own errors, so its  *)
(* "fail" goes on to the next step.                                        *)
BkStep(o) ==
  /\ \E i \in 1..Len(Pipeline(variant)) : Pipeline(variant)[i] = bkPc
  /\ LET polling == variant = "p004" /\ bkPc \in {"slots", "sendSlot"}
         lastPoll == bkPolls + 1 >= PollLimit
     IN /\ (o = "fatal") => polling
        /\ bkSendFailed' = (bkSendFailed \/ (o # "ok" /\ IsSend(bkPc)))
        /\ bkEnvFailed' = (bkEnvFailed \/ o # "ok")
        /\ IF o = "ok" \/ (o = "fail" /\ bkPc = "cancelOrder")
             THEN /\ bkPc' = AfterStep(variant, bkPc)
                  /\ bkBrowser' = IF bkPc = "open" THEN "open" ELSE bkBrowser
                  /\ bkSlotFound' = (bkSlotFound \/ bkPc = "slots")
                  /\ bkReached' = (bkReached \/ bkPc = "confirm")
                  /\ bkLease' = LeaseAfter(bkLease, bkPc)
                  /\ bkSuccess' = (bkSuccess \/ (variant = "p006" /\ bkPc = "sendDone"))
                  /\ bkPolls' = IF bkPc = "sendSlot" THEN 0 ELSE bkPolls
                  /\ UNCHANGED bkPending
           ELSE IF polling /\ o = "fail"
             THEN /\ bkPc' = IF ~lastPoll THEN "slots"
                             ELSE IF bkSlotFound THEN "getNumber" ELSE "catchSend"
                  /\ bkPolls' = IF lastPoll THEN 0 ELSE bkPolls + 1
                  /\ bkPending' = IF lastPoll /\ ~bkSlotFound THEN Some("step") ELSE bkPending
                  /\ UNCHANGED <<bkBrowser, bkSlotFound, bkLease, bkReached, bkSuccess>>
           ELSE /\ bkPc' = "catchSend"
                /\ bkPending' = Some(IF IsSend(bkPc) /\ o = "fail" THEN "send" ELSE "step")
                /\ bkPolls' = 0
                /\ UNCHANGED <<bkBrowser, bkSlotFound, bkLease, bkReached, bkSuccess>>
  /\ UNCHANGED <<bkSelected, bkAttempt, bkStart, bkLog, bkMain>>

(* the catch block of bookAppointment: log, send the failure message, and  *)
(* (part_004 only) rethrow                                                 *)
BkCatchSend(ok) ==
  /\ bkPc = "catchSend"
  /\ bkPc' = "finally"
  /\ bkPending' = IF ~ok THEN Some("send")
                  ELSE IF variant = "p004" THEN bkPending ELSE Null
  /\ bkSendFailed' = (bkSendFailed \/ ~ok)
  /\ bkEnvFailed' = (bkEnvFailed \/ ~ok)
  /\ UNCHANGED <<bkSelected, bkAttempt, bkStart, bkBrowser, bkSuccess, bkSlotFound,
                 bkPolls, bkLease, bkReached, bkLog, bkMain>>

(* `if (browser) await browser.close()` in the finally block, which runs   *)
(* whether or not an error is pending; variant where the close is the last *)
(* statement of the try block first                                        *)
CloseAtEndOfTry(browser, pending, closeOk) ==
  IF browser = "open" /\ closeOk /\ pending = Null THEN "closed" ELSE browser

CloseInFinally(browser, pending, closeOk) ==
  IF browser = "open" /\ closeOk THEN "closed" ELSE browser

(* the finally block of bookAppointment and what the caller does with the  *)
(* outcome.  part_006: close, then recordRun(success, runtime).            *)
(* part_004: close, then `!e` is evaluated with no `e` in scope, which     *)
(* throws a ReferenceError before recordRun is called.                     *)
(* `elapsed` is the time the execution has taken when Date.now() is read.  *)
BkFinally(closeOk, elapsed) ==
  /\ bkPc = "finally"
  /\ (bkBrowser # "open") => closeOk
  /\ LET closeThrew == bkBrowser = "open" /\ ~closeOk
         records == ~closeThrew /\ variant = "p006"
         escaped == IF closeThrew THEN Some("close")
                    ELSE IF variant = "p004" THEN Some("reference")
                    ELSE bkPending
         runtime == RuntimeSeconds(bkStart, bkStart + elapsed)
     IN /\ now' = bkStart + elapsed
        /\ UNCHANGED ticks
        /\ bkBrowser' = CloseInFinally(bkBrowser, bkPending, closeOk)
        /\ bkEnvFailed' = (bkEnvFailed \/ closeThrew)
        /\ IF records
             THEN /\ metrics' = RecordRun(metrics, bkSuccess, runtime, bkStart + elapsed)
                  /\ recordRunCalls' = recordRunCalls + 1
                  /\ runtimeSum' = runtimeSum + runtime
             ELSE UNCHANGED healthVars
        /\ bkLog' = Append(bkLog, [reached |-> bkReached,
                                   recorded |-> IF records THEN 1 ELSE 0,
                                   arg |-> IF records THEN Some(bkSuccess) ELSE Null,
                                   browser |-> CloseInFinally(bkBrowser, bkPending, closeOk),
                                   closeThrew |-> closeThrew,
                                   lease |-> bkLease,
                                   escaped |-> escaped])
        /\ bkPending' = escaped
        /\ IF escaped = Null
             THEN bkPc' = "done" /\ bkMain' = "returned"
             ELSE /\ bkPc' = IF variant = "p004" /\ SleepsAfter(bkAttempt, DefaultMaxRetries)
                               THEN "backoff" ELSE "mainCatch"
                  /\ UNCHANGED bkMain
  /\ UNCHANGED <<bkSelected, bkAttempt, bkStart, bkSuccess, bkSlotFound, bkPolls,
                 bkLease, bkReached, bkSendFailed>>

(* part_004: executeWithRetry has slept and calls bookAppointment again *)
BkWake ==
  /\ bkPc = "backoff"
  /\ bkPc' = Pipeline(variant)[1]
  /\ bkAttempt' = bkAttempt + 1
  /\ BkEnter
  /\ UNCHANGED <<bkSelected, bkLog, bkMain, bkSendFailed, bkEnvFailed>>

(* the catch block of main(): log, then send the 'Main error' message *)
BkMainCatch(ok) ==
  /\ bkPc = "mainCatch"
  /\ bkPc' = "done"
  /\ bkMain' = IF ok THEN "reported" ELSE "escaped"
  /\ bkSendFailed' = (bkSendFailed \/ ~ok)
  /\ bkEnvFailed' = (bkEnvFailed \/ ~ok)
  /\ UNCHANGED <<bkSelected, bkAttempt, bkLocals, bkLog>>

----------------------------------------------------------------------------
(* The one-time code hand-off.  Three programs register a /code handler:   *)
(* "bot" is the automated booking of src/bot.js (SMSManager at 100-152,    *)
(* startFullyAutomatedBooking at 161-409, handlers at 412-443), "p001" is  *)
(* part_001 (its waitForSMS at 524 has no caller) and "p005" is part_005   *)
(* (no continuation at all, a 30 s completion timer instead).  Telegraf    *)
(* runs a handler per update; the handlers of /auto and /code interleave   *)
(* at every await.                                                         *)
MaxAttempts == 2
MaxCommands == 3

Digits == {"0", "1", "2", "3", "4", "5", "6", "7", "8", "9"}

Cmd(arg) == <<"/", "c", "o", "d", "e">> \o arg

MsgCode123456 == Cmd(<<" ", "1", "2", "3", "4", "5", "6">>)
MsgCode654321 == Cmd(<<" ", "6", "5", "4", "3", "2", "1">>)
MsgCodeExtra == Cmd(<<" ", "1", "2", "3", "4", "5", "6", " ", "7">>)
MsgNonDigit == Cmd(<<" ", "1", "2", "a", "4", "5", "6">>)
MsgShort == Cmd(<<" ", "1", "2", "3", "4">>)
MsgLong == Cmd(<<" ", "1", "2", "3", "4", "5", "6", "7">>)
MsgBare == Cmd(<<>>)
MsgTwoSpaces == Cmd(<<" ", " ", "1", "2", "3", "4", "5", "6">>)

CodeMessages ==
  {MsgCode123456, MsgCode654321, MsgCodeExtra, MsgNonDigit, MsgShort, MsgLong,
   MsgBare, MsgTwoSpaces}

(* String.prototype.split(' '): cut at every space, empty pieces kept *)
RECURSIVE Split(_)
Split(s) ==
  IF \A i \in 1..Len(s) : s[i] # " "
    THEN <<s>>
    ELSE LET i == CHOOSE k \in 1..Len(s) :
                    s[k] = " " /\ \A j \in 1..(k - 1) : s[j] # " "
         IN <<SubSeq(s, 1, i - 1)>> \o Split(SubSeq(s, i + 1, Len(s)))

(* code.length === 6 && /^\d+$/.test(code), variant without the length test
   first *)
IsCodeFormatDigitsOnly(code) ==
  /\ Len(code) > 0
  /\ \A i \in 1..Len(code) : code[i] \in Digits

IsCodeFormat(code) ==
  /\ Len(code) = 6
  /\ \A i \in 1..Len(code) : code[i] \in Digits

(* parts.length >= 2 and parts[1] has the format: Some(code), else Null *)
ParseCode(text) ==
  LET parts == Split(text) IN
    IF Len(parts) >= 2 /\ IsCodeFormat(parts[2]) THEN Some(parts[2]) ELSE Null

(* calling the resolve function of a promise, variant where a later call
   replaces the value first *)
ResolveOverwrite(promise, code) == Some(code)

Resolve(promise, code) == IF promise = Null THEN Some(code) ELSE promise

Reply(kind, code) == [kind |-> kind, code |-> code]

(* the replies of the handler to a well-formed code *)
CodeReplies(v, code, resolverSet) ==
  CASE v = "bot" ->
         IF resolverSet THEN <<Reply("auto", Some(code))>>
                        ELSE <<Reply("manual", Some(code))>>
    [] v = "p001" ->
         IF resolverSet THEN <<Reply("received", Some(code)), Reply("manual", Some(code))>>
                        ELSE <<Reply("manual", Some(code))>>
    [] OTHER -> <<Reply("continuing", Some(code))>>

(* `handler` is the /auto handler that started the attempt: it sent its    *)
(* acknowledgement and is at `await startFullyAutomatedBooking()`, or it   *)
(* has returned                                                            *)
NewAttempt == [pc |-> "running", promise |-> Null, smsCode |-> Null, handler |-> "awaiting"]

Awaiting == {a \in 1..Len(otpAtt) : otpAtt[a].pc = "waiting" /\ otpAtt[a].promise = Null}

OtpIdle ==
  /\ otpResolver = Null
  /\ otpAtt = <<>>
  /\ otpLast = Null
  /\ otpCmds = 0
  /\ otpTimers = 0

(* /auto: the handler replies and calls startFullyAutomatedBooking, whose  *)
(* promise it awaits                                                       *)
OtpAuto ==
  /\ variant = "bot"
  /\ Len(otpAtt) < MaxAttempts
  /\ otpAtt' = Append(otpAtt, NewAttempt)
  /\ UNCHANGED <<otpResolver, otpLast, otpCmds, otpTimers>>

(* a step before the code is asked for throws: catch and finally run, the  *)
(* promise of the attempt settles and the handler goes on to its end       *)
OtpFail(a) ==
  /\ a \in 1..Len(otpAtt)
  /\ otpAtt[a].pc = "running"
  /\ otpAtt' = [otpAtt EXCEPT ![a].pc = "ended", ![a].handler = "returned"]
  /\ UNCHANGED <<otpResolver, otpLast, otpCmds, otpTimers>>

(* waitForSMS: a new promise, its resolve function stored in the global *)
OtpWait(a) ==
  /\ a \in 1..Len(otpAtt)
  /\ otpAtt[a].pc = "running"
  /\ otpAtt' = [otpAtt EXCEPT ![a].pc = "waiting"]
  /\ otpResolver' = Some(a)
  /\ UNCHANGED <<otpLast, otpCmds, otpTimers>>

(* the /code handler *)
OtpCode(text) ==
  /\ otpCmds < MaxCommands
  /\ otpCmds' = otpCmds + 1
  /\ LET parsed == ParseCode(text)
         resolverSet == variant # "p005" /\ otpResolver # Null
     IN IF parsed = Null
          THEN /\ otpLast' = Some([text |-> text, awaiting |-> Awaiting,
                                   replies |-> <<Reply("formatError", Null)>>])
               /\ UNCHANGED <<otpAtt, otpTimers>>
          ELSE /\ otpLast' = Some([text |-> text, awaiting |-> Awaiting,
                                   replies |-> CodeReplies(variant, parsed[1], resolverSet)])
               /\ otpAtt' = IF resolverSet
                              THEN [otpAtt EXCEPT ![otpResolver[1]].promise =
                                      Resolve(@, parsed[1])]
                              ELSE otpAtt
               /\ otpTimers' = IF variant = "p005" THEN otpTimers + 1 ELSE otpTimers
  /\ UNCHANGED otpResolver

(* the await of waitForSMS returns: smsCode is the value of the promise *)
OtpResume(a) ==
  /\ a \in 1..Len(otpAtt)
  /\ otpAtt[a].pc = "waiting"
  /\ otpAtt[a].promise # Null
  /\ otpAtt' = [otpAtt EXCEPT ![a].pc = "entering", ![a].smsCode = otpAtt[a].promise]
  /\ UNCHANGED <<otpResolver, otpLast, otpCmds, otpTimers>>

(* the code is typed and the attempt runs to its end, by either path *)
OtpFinish(a) ==
  /\ a \in 1..Len(otpAtt)
  /\ otpAtt[a].pc = "entering"
  /\ otpAtt' = [otpAtt EXCEPT ![a].pc = "ended", ![a].handler = "returned"]
  /\ UNCHANGED <<otpResolver, otpLast, otpCmds, otpTimers>>

(* part_005: the 30 s timer armed by /code fires *)
OtpTimerFire ==
  /\ otpTimers > 0
  /\ otpTimers' = otpTimers - 1
  /\ UNCHANGED <<otpResolver, otpAtt, otpLast, otpCmds>>

----------------------------------------------------------------------------
(* SlotMonitor of part_005 (26-149) with its /monitor and /stop handlers   *)
(* (153-161).  checkRealSlots draws a random number: whether a slot is     *)
(* seen is a free choice at every pass of the loop.                        *)
MaxMonCmds == 3
MaxLoops == 2

AlertCooldown == 300000
LoopSleep == 30000
BookingWait == 10000

(* shouldAlert(), variant without the cooldown test first *)
ShouldAlertAlways(last, t) == TRUE

ShouldAlert(last, t) == IF last = Null THEN TRUE ELSE t - last[1] > AlertCooldown

MonIdle ==
  /\ monMonitoring = FALSE /\ monLastAlert = Null /\ monLoops = <<>>
  /\ monAlerts = <<>> /\ monRestart = "none" /\ monLastDetect = Null /\ monCmds = 0

(* /monitor: startMonitoring().  `ok` is whether the start message is      *)
(* accepted; when it is not, monitorLoop() is never reached.               *)
MonStart(ok) ==
  /\ monCmds < MaxMonCmds
  /\ monCmds' = monCmds + 1
  /\ IF monMonitoring
       THEN UNCHANGED <<monMonitoring, monLoops, monRestart>>
       ELSE /\ ok => Len(monLoops) < MaxLoops
            /\ monMonitoring' = TRUE
            /\ monLoops' = IF ok THEN Append(monLoops, [pc |-> "run", wake |-> now])
                           ELSE monLoops
            /\ monRestart' = IF monRestart = "stopped" /\ ok THEN "restarted" ELSE monRestart
  /\ UNCHANGED <<monLastAlert, monAlerts, monLastDetect>>

(* /stop, or the completion timer of /code: stopMonitoring() *)
MonStop ==
  /\ monCmds < MaxMonCmds
  /\ monCmds' = monCmds + 1
  /\ monMonitoring' = FALSE
  /\ monRestart' = IF monAlerts # <<>> THEN "stopped" ELSE monRestart
  /\ UNCHANGED <<monLastAlert, monLoops, monAlerts, monLastDetect>>

(* one pass of `while (this.monitoring)`, taken when the sleep of the      *)
(* previous pass is over                                                   *)
MonPass(l, slotAvailable) ==
  /\ l \in 1..Len(monLoops)
  /\ monLoops[l].pc = "run"
  /\ now >= monLoops[l].wake
  /\ IF ~monMonitoring
       THEN /\ monLoops' = [monLoops EXCEPT ![l] = [pc |-> "ended", wake |-> 0]]
            /\ UNCHANGED <<monLastAlert, monAlerts, monRestart, monLastDetect, mcBooking, mcLog>>
       ELSE LET alert == slotAvailable /\ ShouldAlert(monLastAlert, now)
            IN /\ monLastAlert' = IF alert THEN Some(now) ELSE monLastAlert
               /\ monAlerts' = IF alert THEN Append(monAlerts, now) ELSE monAlerts
               /\ monLastDetect' = IF slotAvailable
                                     THEN Some([alerted |-> alert, restart |-> monRestart])
                                     ELSE monLastDetect
               /\ monRestart' = IF slotAvailable THEN "none" ELSE monRestart
               /\ monLoops' = [monLoops EXCEPT ![l].wake =
                                 now + LoopSleep + (IF alert THEN BookingWait ELSE 0)]
               /\ mcBooking' = (mcBooking \/ alert)
               /\ mcLog' = IF alert /\ mcBooking THEN mcLog \cup {"secondBooking"} ELSE mcLog
  /\ UNCHANGED <<monMonitoring, monCmds, mcTimers>>

----------------------------------------------------------------------------
(* The guided fallback workflow.  "p001book" is the /book program of       *)
(* part_001 (autoBookWithDirectControl 48-142, emergencyAutoBooking        *)
(* 145-187, handler 190-193), followed for one active profile; "botpro" is *)
(* the ProfessionalBookingSystem of bot.js (phase methods 635-705,         *)
(* handlers 715-738).  A message is recorded with the phase it instructs   *)
(* and with what caused it to be sent.                                     *)
MaxGwCmds == 2

PhaseCommands == <<"navigation", "formFill", "captcha", "sms", "dateSelection">>

(* the delays of the setTimeout calls of autoBookWithDirectControl *)
PhaseDelays ==
  {<<"formFill", 30000>>, <<"captcha", 60000>>, <<"dateSelection", 90000>>,
   <<"final", 120000>>}

Message(phase, cause) == [phase |-> phase, cause |-> cause]

GwIdle == gwSent = <<>> /\ gwTimers = {} /\ gwCmds = 0

(* /book: the control-panel message with the navigation steps is sent and  *)
(* the later instructions are scheduled; `ok` is whether the two sends at  *)
(* the head of autoBookWithDirectControl are accepted                      *)
GwBook(ok) ==
  /\ variant = "p001book"
  /\ gwCmds < MaxGwCmds
  /\ gwCmds' = gwCmds + 1
  /\ IF ok
       THEN /\ gwSent' = Append(gwSent, Message("navigation", "command"))
            /\ gwTimers' = gwTimers \cup {[phase |-> d[1], due |-> now + d[2]] : d \in PhaseDelays}
       ELSE UNCHANGED <<gwSent, gwTimers>>

(* a setTimeout callback runs: the earliest timer that is due *)
GwTimerFire ==
  /\ \E t \in gwTimers :
       /\ t.due <= now
       /\ \A u \in gwTimers : t.due <= u.due
       /\ gwSent' = Append(gwSent, Message(t.phase, "timer"))
       /\ gwTimers' = gwTimers \ {t}
  /\ UNCHANGED gwCmds

(* /phase1 .. /phase5 of bot.js: the handler sends the message of its phase *)
GwPhase(n) ==
  /\ variant = "botpro"
  /\ gwCmds < MaxGwCmds
  /\ gwCmds' = gwCmds + 1
  /\ gwSent' = Append(gwSent, Message(PhaseCommands[n], "command"))
  /\ UNCHANGED gwTimers

(* /auto of bot.js: startProfessionalBooking sends the overall guide *)
GwAuto ==
  /\ variant = "botpro"
  /\ gwCmds < MaxGwCmds
  /\ gwCmds' = gwCmds + 1
  /\ gwSent' = Append(gwSent, Message("guide", "command"))
  /\ UNCHANGED gwTimers

----------------------------------------------------------------------------
(* Start-up: part_002:11-26, part_006:13-18 and the fully automated        *)
(* program of bot.js (85-104, launch at 471-473), which tests nothing.     *)
(* An environment says which variables are set (a variable set to the      *)
(* empty string counts as unset, as `!process.env[name]` has it) and       *)
(* whether SHEETS_URL is text that `new URL` accepts.                      *)
Environments ==
  [BOT_TOKEN : BOOLEAN, CHAT_ID : BOOLEAN, SHEETS_URL : {"unset", "malformed", "wellformed"},
   OTHER_KEYS : BOOLEAN]

(* requiredVars.filter(varName => !process.env[varName]).length > 0 *)
MissingVars(v, env) ==
  \/ ~env.BOT_TOKEN
  \/ ~env.CHAT_ID
  \/ env.SHEETS_URL = "unset"
  \/ (v = "p006" /\ ~env.OTHER_KEYS)

(* new URL(process.env.SHEETS_URL) throws; only part_002 makes the call *)
UrlRejected(v, env) == v = "p002" /\ env.SHEETS_URL = "malformed"

SuIdle ==
  /\ suEnv = [BOT_TOKEN |-> TRUE, CHAT_ID |-> TRUE, SHEETS_URL |-> "wellformed",
              OTHER_KEYS |-> TRUE]
  /\ suPc = "idle" /\ suExit = Null /\ suActs = 0

SuInit ==
  /\ suEnv \in Environments
  /\ suPc = "validate" /\ suExit = Null /\ suActs = 0

(* the statements of the module up to `new Telegraf(process.env.BOT_TOKEN)`. *)
(* bot.js validates nothing; `throws` is whether the Telegraf constructor  *)
(* rejects an absent token, which ends the process with an uncaught        *)
(* exception.                                                              *)
SuValidate(throws) ==
  /\ suPc = "validate"
  /\ throws => (variant = "bot" /\ ~suEnv.BOT_TOKEN)
  /\ IF variant = "bot"
       THEN /\ suPc' = IF throws THEN "exited" ELSE "running"
            /\ suExit' = IF throws THEN Some(1) ELSE Null
       ELSE IF MissingVars(variant, suEnv) \/ UrlRejected(variant, suEnv)
         THEN suPc' = "exited" /\ suExit' = Some(1)
         ELSE suPc' = "running" /\ suExit' = Null
  /\ UNCHANGED <<suEnv, suActs>>

(* the first request of the running program: main() fetches the feed       *)
(* (part_002) or tests the chat (part_006), bot.launch() calls Telegram    *)
SuActivity ==
  /\ suPc = "running"
  /\ suActs = 0
  /\ suActs' = 1
  /\ UNCHANGED <<suEnv, suPc, suExit>>

----------------------------------------------------------------------------
(* From the slot search to the personal data: bookAppointment of part_002  *)
(* (211-260) and startFullyAutomatedBooking of bot.js (265-316).           *)
MaxSlotAttempts == 20

(* what the calendar shows after page.reload *)
ReloadedPages == {<<>>, <<<<5, 10, 2025>>>>}

EnIdle == enAttempts = 0 /\ enPersonal = Null

EnInit == enAttempts = 1 /\ enPersonal = Null

(* part_002: findAvailableSlots returned null; the loop sleeps 5 s,        *)
(* reloads and searches again, or gives up after maxAttempts passes;       *)
(* `reloadOk` is whether page.reload succeeds                              *)
EnRetry(reloadOk, reloaded) ==
  /\ variant = "p002" /\ slotPc = "null"
  /\ IF ~reloadOk
       THEN slotPc' = "raised" /\ UNCHANGED <<page, enAttempts>>
       ELSE IF enAttempts < MaxSlotAttempts
         THEN slotPc' = "search" /\ page' = reloaded /\ enAttempts' = enAttempts + 1
         ELSE slotPc' = "raised" /\ UNCHANGED <<page, enAttempts>>
  /\ UNCHANGED <<slotStrat, slotRetry, slotEvals, slotSelected, slotClicked, enPersonal>>

(* bot.js phase 4: waitForSelector, then one evaluation that clicks the    *)
(* earliest cell; a timeout or a throw is caught and the attempt goes on   *)
(* with the form                                                           *)
FindSlotsBot(throws) ==
  /\ variant = "bot" /\ slotPc = "search"
  /\ IF throws \/ Len(page) = 0
       THEN /\ slotPc' = "continuing"
            /\ UNCHANGED <<slotEvals, slotSelected, slotClicked>>
       ELSE /\ slotEvals' = slotEvals + 1
            /\ slotSelected' = Some(SortByIsoTimestamp(page)[1])
            /\ slotClicked' = Some(SortByIsoTimestamp(page)[1])
            /\ slotPc' = "returned"
  /\ UNCHANGED <<page, slotStrat, slotRetry, enAttempts, enPersonal>>

(* the first field of the personal data is typed *)
EnPersonal ==
  /\ variant \in {"p002", "bot"}
  /\ slotPc \in {"returned", "continuing"}
  /\ slotPc' = "personal"
  /\ enPersonal' = Some(slotSelected)
  /\ UNCHANGED <<page, slotStrat, slotRetry, slotEvals, slotSelected, slotClicked, enAttempts>>

----------------------------------------------------------------------------
(* SMSManager.waitForSMS of part_004 (104-121) and part_006 (115-124).     *)
(* A poll is one call of getSMS: it returns a code, returns null, or       *)
(* throws once makeRequest has used up its retries.  Time is counted by    *)
(* the sleeps between polls.                                               *)
SmsTimeout == 120000
SmsPollSleep == 10000
SmsErrorSleep == 5000
SmsGiveUp == 5

SmIdle == smPc = "idle" /\ smAttempts = 0 /\ smElapsed = 0 /\ smFails = 0

SmInit == smPc = "polling" /\ smAttempts = 0 /\ smElapsed = 0 /\ smFails = 0

(* one pass of `while (Date.now() - start < timeout)` *)
SmPoll(outcome) ==
  /\ smPc = "polling"
  /\ IF smElapsed >= SmsTimeout
       THEN smPc' = "timedOut" /\ UNCHANGED <<smAttempts, smElapsed, smFails>>
       ELSE /\ smAttempts' = smAttempts + 1
            /\ CASE outcome = "code" ->
                      smPc' = "returned" /\ smFails' = 0 /\ UNCHANGED smElapsed
                 [] outcome = "none" ->
                      /\ smElapsed' = smElapsed + SmsPollSleep
                      /\ smFails' = 0
                      /\ UNCHANGED smPc
                 [] OTHER ->
                      /\ smFails' = smFails + 1
                      /\ IF variant = "p006"
                           THEN smPc' = "raised" /\ UNCHANGED smElapsed
                           ELSE IF smAttempts + 1 >= SmsGiveUp
                             THEN smPc' = "gaveUp" /\ UNCHANGED smElapsed
                             ELSE smElapsed' = smElapsed + SmsErrorSleep /\ UNCHANGED smPc

----------------------------------------------------------------------------
(* HealthMonitor.checkBalances of part_004 (154-177) and part_006          *)
(* (151-157): three provider checks, each in its own try.  What a check    *)
(* meets: its fetch fails, or it answers with a balance that is above the  *)
(* warning line, or below it with the warning then accepted or refused by  *)
(* Telegram.                                                               *)
Providers == <<"5sim", "Browserless", "Capsolver">>

(* only part_004 warns, and only for its first two providers *)
Warns(v, p) == v = "p004" /\ p \in {1, 2}

(* what one try/catch pushes to `checks` *)
CheckEntries(v, p, o) ==
  IF o = "fetchFails"
    THEN <<[provider |-> Providers[p], entry |-> "unavailable"]>>
    ELSE IF o = "lowSendFails" /\ Warns(v, p)
      THEN <<[provider |-> Providers[p], entry |-> "value"],
             [provider |-> Providers[p], entry |-> "unavailable"]>>
      ELSE <<[provider |-> Providers[p], entry |-> "value"]>>

HbIdle == hbEnv = <<>> /\ hbPc = 0 /\ hbChecks = <<>>

HbInit ==
  /\ hbEnv \in [DOMAIN Providers -> {"fetchFails", "ok", "lowSendOk", "lowSendFails"}]
  /\ hbPc = 1 /\ hbChecks = <<>>

(* the next try/catch of checkBalances; after the third, `return checks` *)
HbCheck ==
  /\ hbPc \in DOMAIN Providers
  /\ hbChecks' = hbChecks \o CheckEntries(variant, hbPc, hbEnv[hbPc])
  /\ hbPc' = hbPc + 1
  /\ UNCHANGED hbEnv

----------------------------------------------------------------------------
(* The /code handler of part_005 (163-202) next to the monitor.            *)
CompletionDelay == 30000

McIdle == mcBooking = FALSE /\ mcTimers = {} /\ mcLog = {}

(* the handler: a well-formed code is acknowledged and the completion      *)
(* timer is armed, whatever global.bookingInProgress is                    *)
MonCode(text) ==
  /\ monCmds < MaxMonCmds
  /\ monCmds' = monCmds + 1
  /\ mcTimers' = IF ParseCode(text) # Null THEN mcTimers \cup {now + CompletionDelay}
                 ELSE mcTimers
  /\ UNCHANGED <<monMonitoring, monLastAlert, monLoops, monAlerts, monRestart, monLastDetect,
                 mcBooking, mcLog>>

(* the setTimeout callback of the handler: the completion message, then    *)
(* stopMonitoring() and bookingInProgress = false; `ok` is whether the     *)
(* message is accepted (when it is not, the callback ends there)           *)
MonCodeTimerFire(ok) ==
  /\ \E t \in mcTimers :
       /\ t <= now
       /\ \A u \in mcTimers : t <= u
       /\ mcTimers' = mcTimers \ {t}
  /\ IF ok
       THEN /\ monMonitoring' = FALSE
            /\ monRestart' = IF monAlerts # <<>> THEN "stopped" ELSE monRestart
            /\ mcBooking' = FALSE
            /\ mcLog' = IF monMonitoring /\ ~mcBooking THEN mcLog \cup {"stoppedIdle"} ELSE mcLog
       ELSE UNCHANGED <<monMonitoring, monRestart, mcBooking, mcLog>>
  /\ UNCHANGED <<monLastAlert, monLoops, monAlerts, monLastDetect, monCmds>>

----------------------------------------------------------------------------
(* Specifications.  Each exercises one component; the other components     *)
(* stay in their idle state.                                               *)
vars == <<variant, clockVars, cfgVars, retryVars, healthVars, slotVars, filterVars, mainVars, bkVars, otpVars, monVars, gwVars, suVars, enVars, smVars, hbVars, mcVars>>

ClockInit == now = 1000 /\ ticks = 0

(* ConfigManager: one instance, called again and again by one caller *)
InitConfig ==
  /\ variant \in {"p004", "p006"}
  /\ ClockInit /\ CfgInit /\ RetryIdle /\ HealthInit /\ SlotIdle /\ FilterIdle /\ MainIdle /\ BkIdle /\ OtpIdle /\ MonIdle /\ GwIdle /\ SuIdle /\ EnIdle /\ SmIdle /\ HbIdle /\ McIdle

NextConfig ==
  \/ GetConfigs /\ UNCHANGED <<variant, clockVars, retryVars, healthVars, slotVars, filterVars, mainVars, bkVars, otpVars, monVars, gwVars, suVars, enVars, smVars, hbVars, mcVars>>
  \/ \E r \in Responses(SampleFeeds) :
       FetchRespond(r) /\ UNCHANGED <<variant, clockVars, retryVars, healthVars, slotVars, filterVars, mainVars, bkVars, otpVars, monVars, gwVars, suVars, enVars, smVars, hbVars, mcVars>>
  \/ Tick /\ UNCHANGED <<variant, cfgVars, retryVars, healthVars, slotVars, filterVars, mainVars, bkVars, otpVars, monVars, gwVars, suVars, enVars, smVars, hbVars, mcVars>>

SpecConfig == InitConfig /\ [][NextConfig]_vars

(* The ConfigManager of part_004 with a caller that also uses refreshConfigs *)
InitRefresh == variant = "p004" /\ InitConfig

NextRefresh ==
  \/ NextConfig
  \/ RefreshConfigs /\ UNCHANGED <<variant, clockVars, retryVars, healthVars, slotVars, filterVars, mainVars, bkVars, otpVars, monVars, gwVars, suVars, enVars, smVars, hbVars, mcVars>>

SpecRefresh == InitRefresh /\ [][NextRefresh]_vars

(* RetryManager: one executeWithRetry call against an operation that may   *)
(* fail or succeed at each invocation                                      *)
InitRetry ==
  /\ variant \in {"p004", "p006"}
  /\ ClockInit /\ CfgInit /\ RetryInit /\ HealthInit /\ SlotIdle /\ FilterIdle /\ MainIdle /\ BkIdle /\ OtpIdle /\ MonIdle /\ GwIdle /\ SuIdle /\ EnIdle /\ SmIdle /\ HbIdle /\ McIdle

NextRetry ==
  \/ RetryOpSucceeds /\ UNCHANGED <<variant, clockVars, cfgVars, healthVars, slotVars, filterVars, mainVars, bkVars, otpVars, monVars, gwVars, suVars, enVars, smVars, hbVars, mcVars>>
  \/ \E e \in OpErrors :
       RetryOpFails(e) /\ UNCHANGED <<variant, clockVars, cfgVars, healthVars, slotVars, filterVars, mainVars, bkVars, otpVars, monVars, gwVars, suVars, enVars, smVars, hbVars, mcVars>>
  \/ RetryWake /\ UNCHANGED <<variant, clockVars, cfgVars, healthVars, slotVars, filterVars, mainVars, bkVars, otpVars, monVars, gwVars, suVars, enVars, smVars, hbVars, mcVars>>

SpecRetry == InitRetry /\ [][NextRetry]_vars

(* HealthMonitor: a sequence of recordRun calls *)
InitHealth ==
  /\ variant \in {"p004", "p006"}
  /\ ClockInit /\ CfgInit /\ RetryIdle /\ HealthInit /\ SlotIdle /\ FilterIdle /\ MainIdle /\ BkIdle /\ OtpIdle /\ MonIdle /\ GwIdle /\ SuIdle /\ EnIdle /\ SmIdle /\ HbIdle /\ McIdle

NextHealth ==
  \/ \E success \in BOOLEAN, runtime \in Runtimes :
       CallRecordRun(success, runtime)
         /\ UNCHANGED <<variant, clockVars, cfgVars, retryVars, slotVars, filterVars, mainVars, bkVars, otpVars, monVars, gwVars, suVars, enVars, smVars, hbVars, mcVars>>
  \/ Tick /\ UNCHANGED <<variant, cfgVars, retryVars, healthVars, slotVars, filterVars, mainVars, bkVars, otpVars, monVars, gwVars, suVars, enVars, smVars, hbVars, mcVars>>

SpecHealth == InitHealth /\ [][NextHealth]_vars

(* Slot detection: one findAvailableSlots call on a page *)
InitSlots ==
  /\ variant \in {"p002", "p004", "p006"}
  /\ ClockInit /\ CfgInit /\ RetryIdle /\ HealthInit /\ SlotInit /\ FilterIdle /\ MainIdle /\ BkIdle /\ OtpIdle /\ MonIdle /\ GwIdle /\ SuIdle /\ EnIdle /\ SmIdle /\ HbIdle /\ McIdle

NextSlots ==
  \/ \E throws \in BOOLEAN :
       FindSlots004(throws) /\ UNCHANGED <<variant, clockVars, cfgVars, retryVars, healthVars, filterVars, mainVars, bkVars, otpVars, monVars, gwVars, suVars, enVars, smVars, hbVars, mcVars>>
  \/ \E throws \in BOOLEAN :
       FindSlots006(throws) /\ UNCHANGED <<variant, clockVars, cfgVars, retryVars, healthVars, filterVars, mainVars, bkVars, otpVars, monVars, gwVars, suVars, enVars, smVars, hbVars, mcVars>>
  \/ \E throws \in BOOLEAN :
       FindSlots002(throws) /\ UNCHANGED <<variant, clockVars, cfgVars, retryVars, healthVars, filterVars, mainVars, bkVars, otpVars, monVars, gwVars, suVars, enVars, smVars, hbVars, mcVars>>

SpecSlots == InitSlots /\ [][NextSlots]_vars

(* The active filter applied to a fetched array *)
InitFilter ==
  /\ variant \in {"p002"}
  /\ ClockInit /\ CfgInit /\ RetryIdle /\ HealthInit /\ SlotIdle /\ FilterInit /\ MainIdle /\ BkIdle /\ OtpIdle /\ MonIdle /\ GwIdle /\ SuIdle /\ EnIdle /\ SmIdle /\ HbIdle /\ McIdle

NextFilter ==
  ApplyActiveFilter /\ UNCHANGED <<variant, clockVars, cfgVars, retryVars, healthVars, slotVars, mainVars, bkVars, otpVars, monVars, gwVars, suVars, enVars, smVars, hbVars, mcVars>>

SpecFilter == InitFilter /\ [][NextFilter]_vars

(* The activeWindow filter applied to one row on hosts of several zones *)
InitWindow ==
  /\ variant \in {"p004"}
  /\ ClockInit /\ CfgInit /\ RetryIdle /\ HealthInit /\ SlotIdle /\ BkIdle /\ OtpIdle /\ MonIdle /\ GwIdle /\ SuIdle /\ EnIdle /\ SmIdle /\ HbIdle /\ McIdle
  /\ feed = <<>> /\ cyc = <<>> /\ queue = <<>>
  /\ WindowInit

NextWindow ==
  ApplyWindowFilter
    /\ UNCHANGED <<variant, clockVars, cfgVars, retryVars, healthVars, slotVars, bkVars,
                   otpVars, monVars, gwVars, suVars, enVars, smVars, hbVars, mcVars, feed, cyc, queue>>

SpecWindow == InitWindow /\ [][NextWindow]_vars

(* The scheduler: main() invocations and their booking attempts *)
InitMain ==
  /\ variant \in {"p002", "p004", "p006"}
  /\ ClockInit /\ CfgInit /\ RetryIdle /\ HealthInit /\ SlotIdle /\ FilterIdle /\ MainInit /\ BkIdle /\ OtpIdle /\ MonIdle /\ GwIdle /\ SuIdle /\ EnIdle /\ SmIdle /\ HbIdle /\ McIdle

othersOfMain == <<variant, clockVars, cfgVars, retryVars, slotVars, filterVars, bkVars, otpVars, monVars, gwVars, suVars, enVars, smVars, hbVars, mcVars>>

NextMain ==
  \/ MainStart /\ UNCHANGED othersOfMain /\ UNCHANGED healthVars
  \/ \E c \in 1..MaxCycles, ok \in BOOLEAN :
       MainTelegramTest(c, ok) /\ UNCHANGED othersOfMain /\ UNCHANGED healthVars
  \/ \E c \in 1..MaxCycles, r \in Responses({feed}) :
       MainFetch(c, r) /\ UNCHANGED othersOfMain /\ UNCHANGED healthVars
  \/ TaskStart /\ UNCHANGED othersOfMain /\ UNCHANGED healthVars
  \/ LoopStart /\ UNCHANGED othersOfMain /\ UNCHANGED healthVars
  \/ \E c \in 1..MaxCycles, k \in 1..SliceLimit, reached \in BOOLEAN :
       BookEnd(c, k, reached) /\ UNCHANGED othersOfMain
  \/ \E c \in 1..MaxCycles, k \in 1..SliceLimit :
       TaskWake(c, k) /\ UNCHANGED othersOfMain /\ UNCHANGED healthVars

SpecMain == InitMain /\ [][NextMain]_vars

(* One main() invocation over a one-row feed, step by step *)
InitAttempt ==
  /\ variant \in {"p004", "p006"}
  /\ ClockInit /\ CfgInit /\ RetryIdle /\ HealthInit /\ SlotIdle /\ FilterIdle /\ OtpIdle /\ MonIdle /\ GwIdle /\ SuIdle /\ EnIdle /\ SmIdle /\ HbIdle /\ McIdle
  /\ feed \in AttemptFeeds /\ hostClock \in HostClocks /\ cyc = <<>> /\ queue = <<>>
  /\ BkInit

othersOfAttempt == <<variant, cfgVars, retryVars, slotVars, filterVars, mainVars, otpVars, monVars, gwVars, suVars, enVars, smVars, hbVars, mcVars>>

NextAttempt ==
  \/ \E ok \in BOOLEAN :
       BkMainStart(ok) /\ UNCHANGED <<othersOfAttempt, clockVars, healthVars>>
  \/ \E r \in Responses({feed}) :
       BkFetch(r) /\ UNCHANGED <<othersOfAttempt, clockVars, healthVars>>
  \/ \E o \in StepOutcomes :
       BkStep(o) /\ UNCHANGED <<othersOfAttempt, clockVars, healthVars>>
  \/ \E ok \in BOOLEAN :
       BkCatchSend(ok) /\ UNCHANGED <<othersOfAttempt, clockVars, healthVars>>
  \/ \E closeOk \in BOOLEAN, elapsed \in Elapsed :
       BkFinally(closeOk, elapsed) /\ UNCHANGED othersOfAttempt
  \/ BkWake /\ UNCHANGED <<othersOfAttempt, clockVars, healthVars>>
  \/ \E ok \in BOOLEAN :
       BkMainCatch(ok) /\ UNCHANGED <<othersOfAttempt, clockVars, healthVars>>

SpecAttempt == InitAttempt /\ [][NextAttempt]_vars

(* The /code hand-off of bot.js, part_001 and part_005 *)
InitOtp ==
  /\ variant \in {"bot", "p001", "p005"}
  /\ ClockInit /\ CfgInit /\ RetryIdle /\ HealthInit /\ SlotIdle /\ FilterIdle /\ MainIdle /\ BkIdle
  /\ OtpIdle /\ MonIdle /\ GwIdle /\ SuIdle /\ EnIdle /\ SmIdle /\ HbIdle /\ McIdle

othersOfOtp ==
  <<variant, clockVars, cfgVars, retryVars, healthVars, slotVars, filterVars, mainVars, bkVars,
    monVars, gwVars, suVars, enVars, smVars, hbVars, mcVars>>

NextOtp ==
  \/ OtpAuto /\ UNCHANGED othersOfOtp
  \/ \E a \in 1..MaxAttempts : OtpFail(a) /\ UNCHANGED othersOfOtp
  \/ \E a \in 1..MaxAttempts : OtpWait(a) /\ UNCHANGED othersOfOtp
  \/ \E text \in CodeMessages : OtpCode(text) /\ UNCHANGED othersOfOtp
  \/ \E a \in 1..MaxAttempts : OtpResume(a) /\ UNCHANGED othersOfOtp
  \/ \E a \in 1..MaxAttempts : OtpFinish(a) /\ UNCHANGED othersOfOtp
  \/ OtpTimerFire /\ UNCHANGED othersOfOtp

SpecOtp == InitOtp /\ [][NextOtp]_vars

(* The same hand-off with the scheduling of the event loop: a resumed or   *)
(* resumable attempt runs on, a timer that is due fires.  Whether the      *)
(* operator sends /auto or /code is not the program's to decide.           *)
OtpProgramStep ==
  \/ \E a \in 1..MaxAttempts : OtpResume(a) /\ UNCHANGED othersOfOtp
  \/ \E a \in 1..MaxAttempts : OtpFinish(a) /\ UNCHANGED othersOfOtp
  \/ OtpTimerFire /\ UNCHANGED othersOfOtp

SpecOtpLive == SpecOtp /\ WF_vars(OtpProgramStep)

(* The slot monitor of part_005 *)
InitMonitor ==
  /\ variant = "p005"
  /\ ClockInit /\ CfgInit /\ RetryIdle /\ HealthInit /\ SlotIdle /\ FilterIdle /\ MainIdle /\ BkIdle
  /\ OtpIdle
  /\ MonIdle /\ GwIdle /\ SuIdle /\ EnIdle /\ SmIdle /\ HbIdle /\ McIdle

othersOfMonitor ==
  <<variant, cfgVars, retryVars, healthVars, slotVars, filterVars, mainVars, bkVars, otpVars,
    gwVars, suVars, enVars, smVars, hbVars>>

NextMonitor ==
  \/ \E ok \in BOOLEAN : MonStart(ok) /\ UNCHANGED <<othersOfMonitor, clockVars, mcVars>>
  \/ MonStop /\ UNCHANGED <<othersOfMonitor, clockVars, mcVars>>
  \/ \E l \in 1..MaxLoops, slotAvailable \in BOOLEAN :
       MonPass(l, slotAvailable) /\ UNCHANGED <<othersOfMonitor, clockVars>>
  \/ Tick /\ UNCHANGED <<othersOfMonitor, monVars, mcVars>>

SpecMonitor == InitMonitor /\ [][NextMonitor]_vars

(* The slot monitor of part_005 with its /code handler *)
NextMonCode ==
  \/ NextMonitor
  \/ \E text \in {MsgCode123456, MsgShort} :
       MonCode(text) /\ UNCHANGED <<othersOfMonitor, clockVars>>
  \/ \E ok \in BOOLEAN : MonCodeTimerFire(ok) /\ UNCHANGED <<othersOfMonitor, clockVars>>

SpecMonCode == InitMonitor /\ [][NextMonCode]_vars

(* The guided fallback workflow of part_001 and bot.js *)
InitGuided ==
  /\ variant \in {"p001book", "botpro"}
  /\ ClockInit /\ CfgInit /\ RetryIdle /\ HealthInit /\ SlotIdle /\ FilterIdle /\ MainIdle /\ BkIdle
  /\ OtpIdle /\ MonIdle /\ GwIdle /\ SuIdle /\ EnIdle /\ SmIdle /\ HbIdle /\ McIdle

othersOfGuided ==
  <<variant, cfgVars, retryVars, healthVars, slotVars, filterVars, mainVars, bkVars, otpVars,
    monVars, suVars, enVars, smVars, hbVars, mcVars>>

NextGuided ==
  \/ \E ok \in BOOLEAN : GwBook(ok) /\ UNCHANGED <<othersOfGuided, clockVars>>
  \/ GwTimerFire /\ UNCHANGED <<othersOfGuided, clockVars>>
  \/ \E n \in 1..Len(PhaseCommands) : GwPhase(n) /\ UNCHANGED <<othersOfGuided, clockVars>>
  \/ GwAuto /\ UNCHANGED <<othersOfGuided, clockVars>>
  \/ Tick /\ UNCHANGED <<othersOfGuided, gwVars>>

SpecGuided == InitGuided /\ [][NextGuided]_vars

(* Start-up of part_002, part_006 and bot.js *)
InitStartup ==
  /\ variant \in {"p002", "p006", "bot"}
  /\ ClockInit /\ CfgInit /\ RetryIdle /\ HealthInit /\ SlotIdle /\ FilterIdle /\ MainIdle /\ BkIdle
  /\ OtpIdle /\ MonIdle /\ GwIdle /\ SuInit /\ EnIdle /\ SmIdle /\ HbIdle /\ McIdle

othersOfStartup ==
  <<variant, clockVars, cfgVars, retryVars, healthVars, slotVars, filterVars, mainVars, bkVars,
    otpVars, monVars, gwVars, enVars, smVars, hbVars, mcVars>>

NextStartup ==
  \/ \E throws \in BOOLEAN : SuValidate(throws) /\ UNCHANGED othersOfStartup
  \/ SuActivity /\ UNCHANGED othersOfStartup

SpecStartup == InitStartup /\ [][NextStartup]_vars

(* The slot search and the personal data of part_002 and bot.js *)
InitEntry ==
  /\ variant \in {"p002", "bot"}
  /\ ClockInit /\ CfgInit /\ RetryIdle /\ HealthInit /\ SlotInit /\ FilterIdle /\ MainIdle /\ BkIdle
  /\ OtpIdle /\ MonIdle /\ GwIdle /\ SuIdle /\ EnInit /\ SmIdle /\ HbIdle /\ McIdle

othersOfEntry ==
  <<variant, clockVars, cfgVars, retryVars, healthVars, filterVars, mainVars, bkVars,
    otpVars, monVars, gwVars, suVars, smVars, hbVars, mcVars>>

NextEntry ==
  \/ \E throws \in BOOLEAN : FindSlots002(throws) /\ UNCHANGED <<othersOfEntry, enVars>>
  \/ \E reloadOk \in BOOLEAN, reloaded \in ReloadedPages :
       EnRetry(reloadOk, reloaded) /\ UNCHANGED othersOfEntry
  \/ \E throws \in BOOLEAN : FindSlotsBot(throws) /\ UNCHANGED othersOfEntry
  \/ EnPersonal /\ UNCHANGED othersOfEntry

SpecEntry == InitEntry /\ [][NextEntry]_vars

(* SMSManager.waitForSMS of part_004 and part_006 *)
InitSms ==
  /\ variant \in {"p004", "p006"}
  /\ ClockInit /\ CfgInit /\ RetryIdle /\ HealthInit /\ SlotIdle /\ FilterIdle /\ MainIdle /\ BkIdle
  /\ OtpIdle /\ MonIdle /\ GwIdle /\ SuIdle /\ EnIdle /\ SmInit /\ HbIdle /\ McIdle

NextSms ==
  \E outcome \in {"code", "none", "fail"} :
    SmPoll(outcome)
    /\ UNCHANGED <<variant, clockVars, cfgVars, retryVars, healthVars, slotVars, filterVars,
                   mainVars, bkVars, otpVars, monVars, gwVars, suVars, enVars, hbVars, mcVars>>

SpecSms == InitSms /\ [][NextSms]_vars

(* The selection of main() in part_002, part_004 and part_006 *)
InitSelect ==
  /\ variant \in {"p002", "p004", "p006"}
  /\ ClockInit /\ CfgInit /\ RetryIdle /\ HealthInit /\ SlotIdle /\ SelectInit /\ BkIdle
  /\ OtpIdle /\ MonIdle /\ GwIdle /\ SuIdle /\ EnIdle /\ SmIdle /\ HbIdle /\ McIdle

NextSelect ==
  SelectRows
  /\ UNCHANGED <<variant, clockVars, cfgVars, retryVars, healthVars, slotVars, mainVars, bkVars,
                 otpVars, monVars, gwVars, suVars, enVars, smVars, hbVars, mcVars>>

SpecSelect == InitSelect /\ [][NextSelect]_vars

(* HealthMonitor.checkBalances of part_004 and part_006 *)
InitBalances ==
  /\ variant \in {"p004", "p006"}
  /\ ClockInit /\ CfgInit /\ RetryIdle /\ HealthInit /\ SlotIdle /\ FilterIdle /\ MainIdle /\ BkIdle
  /\ OtpIdle /\ MonIdle /\ GwIdle /\ SuIdle /\ EnIdle /\ SmIdle /\ HbInit /\ McIdle

NextBalances ==
  HbCheck
  /\ UNCHANGED <<variant, clockVars, cfgVars, retryVars, healthVars, slotVars, filterVars,
                 mainVars, bkVars, otpVars, monVars, gwVars, suVars, enVars, smVars, mcVars>>

SpecBalances == InitBalances /\ [][NextBalances]_vars

----------------------------------------------------------------------------
(* Properties *)

(* C1: after a getConfigs() call that fetched successfully at time T with  *)
(* cacheTtl = 300000 (T the latest such fetch), every call made strictly   *)
(* before T + 300000 returns the same cached array without an HTTP         *)
(* request, and a call at T + 300001 issues a new HTTP request.            *)
CacheTtlHonoured ==
  (cmLast # Null /\ cmLast[1].prev # Null /\ cacheTtl = 300000) =>
    LET call == cmLast[1]
        T == call.prev[1].at
    IN /\ call.at < T + 300000 =>
            ~call.http /\ call.out = Some(call.prev[1].body)
       /\ call.at = T + 300001 => call.http

(* a call 1 ms before the expiry was answered from the cache *)
CacheTtlWitness ==
  /\ cmLast # Null /\ cmLast[1].prev # Null
  /\ cmLast[1].at = cmLast[1].prev[1].at + 299999
  /\ ~cmLast[1].http
  /\ cmLast[1].out = Some(cmLast[1].prev[1].body)

(* C2: with a previously fetched array in the cache and the expiry passed, *)
(* a getConfigs() call whose fetch fails (non-2xx status, timeout or       *)
(* unparsable body) returns the previously cached array and raises nothing.*)
StaleCacheFallback ==
  (cmLast # Null /\ cmLast[1].http /\ cmLast[1].resp \in FailKinds
     /\ cmLast[1].cacheBefore # Null) =>
    /\ cmLast[1].out = cmLast[1].cacheBefore
    /\ cmLast[1].err = "none"
    /\ cmLast[1].out = Some(cmLast[1].prev[1].body)

StaleCacheWitness ==
  /\ cmLast # Null /\ cmLast[1].http /\ cmLast[1].resp = "http"
  /\ cmLast[1].cacheBefore # Null
  /\ cmLast[1].at >= cmLast[1].prev[1].at + 300000
  /\ cmLast[1].out = cmLast[1].cacheBefore

(* C3: on an instance that never fetched successfully, a getConfigs() call *)
(* whose fetch fails raises the failure: it returns no array (neither an   *)
(* empty nor a default one) and the cache stays empty.                     *)
ColdCacheFailureRaises ==
  (cmLast # Null /\ cmLast[1].prev = Null /\ cmLast[1].resp # "ok") =>
    /\ cmLast[1].http
    /\ cmLast[1].err = cmLast[1].resp
    /\ cmLast[1].out = Null
    /\ cache = Null

ColdCacheWitness ==
  /\ cmLast # Null /\ cmLast[1].prev = Null /\ cmLast[1].resp = "timeout"
  /\ cmLast[1].err = "timeout" /\ cache = Null /\ httpRequests >= 2

(* C6 as stated: the active predicate accepts a row whose active field is  *)
(* any letter case of 'yes', rejects a row whose active field is 'no' or   *)
(* false, and accepts a row with no active key that has another field     *)
(* whose value is 'yes'.                                                   *)
Range(q) == {q[i] : i \in 1..Len(q)}

AnyCaseYes(v) ==
  /\ v.t = "str" /\ Len(v.s) = 3
  /\ v.s[1] \in {"y", "Y"} /\ v.s[2] \in {"e", "E"} /\ v.s[3] \in {"s", "S"}

NoOrFalse(v) == v = Str(<<"n", "o">>) \/ v = Bool(FALSE)

ActivePredicateWithFallback ==
  fOut # Null =>
    \A i \in 1..Len(fIn) :
      LET row == fIn[i] IN
      /\ (row.active # Null /\ AnyCaseYes(row.active[1])) => row \in Range(fOut[1])
      /\ (row.active # Null /\ NoOrFalse(row.active[1])) => row \notin Range(fOut[1])
      /\ (row.active = Null /\ row.status # Null /\ AnyCaseYes(row.status[1]))
            => row \in Range(fOut[1])

(* C7 as stated: whatever the order of the cells in the page, the date     *)
(* findAvailableSlots returns and clicks is the chronologically earliest   *)
(* one, the text being read as day/month/year.                             *)
ChronoLeq(a, b) ==
  \/ a[3] < b[3]
  \/ a[3] = b[3] /\ a[2] < b[2]
  \/ a[3] = b[3] /\ a[2] = b[2] /\ a[1] <= b[1]

EarliestSlotSelected ==
  slotPc = "returned" =>
    /\ slotClicked = slotSelected
    /\ \A i \in 1..Len(page) : ChronoLeq(slotSelected[1], page[i])

(* C9 as stated: against an operation that always fails, the operation is  *)
(* invoked exactly maxRetries times, the wait after the k-th failure is    *)
(* baseDelay * 2^(k-1) for k < maxRetries, there is no wait after the last *)
(* failure, and one error carrying maxRetries and the last error is raised.*)
RetryExponentialBackoff ==
  rPc = "raised" =>
    /\ rCalls = rMax
    /\ Len(rWaits) = rMax - 1
    /\ \A k \in 1..Len(rWaits) : rWaits[k] = rBase * Pow2(k - 1)
    /\ rRaised = Some([n |-> rMax, last |-> rLastError[1]])

(* C9 as amended: as above, but the wait after the k-th failure is         *)
(* baseDelay * 2^(k-1) in part_004 and baseDelay * k in part_006 (the two  *)
(* agree for k <= 2, hence for maxRetries = 3).                            *)
RetryBackoffPerVariant ==
  rPc = "raised" =>
    /\ rCalls = rMax
    /\ Len(rWaits) = rMax - 1
    /\ \A k \in 1..Len(rWaits) :
         rWaits[k] = IF variant = "p004" THEN rBase * Pow2(k - 1) ELSE rBase * k
    /\ rRaised = Some([n |-> rMax, last |-> rLastError[1]])

RetryBackoffWitness ==
  /\ rPc = "raised" /\ rMax = 3 /\ rBase = 1000
  /\ rCalls = 3 /\ rWaits = <<1000, 2000>>
  /\ rRaised = Some([n |-> 3, last |-> "E2"])

(* C10: after any sequence of recordRun calls, successfulBookings +        *)
(* failedBookings = totalRuns, and totalRuns is the number of calls made.  *)
RunCountersConsistent ==
  /\ metrics.successfulBookings + metrics.failedBookings = metrics.totalRuns
  /\ metrics.totalRuns = recordRunCalls

RunCountersWitness ==
  /\ recordRunCalls = 3
  /\ metrics.successfulBookings = 1 /\ metrics.failedBookings = 2

(* C11: after the n-th recordRun call avgRuntime is the arithmetic mean of *)
(* the n runtimes recorded so far, in exact arithmetic:                    *)
(* avgRuntime * totalRuns = sum of the runtimes.                           *)
AvgRuntimeIsMean ==
  /\ metrics.avgRuntime[2] > 0
  /\ metrics.avgRuntime[1] * metrics.totalRuns = runtimeSum * metrics.avgRuntime[2]

(* four runs that total 70 seconds: the mean is 35/2, not a whole number   *)
AvgRuntimeWitness ==
  /\ recordRunCalls = 4 /\ runtimeSum = 70
  /\ metrics.avgRuntime = <<35, 2>>

(* C4 as stated: when an earlier invocation of main() fetched the feed and *)
(* a later invocation's fetch fails, the later one proceeds with the       *)
(* previously fetched profiles and reports no 'Main error'.                *)
CachedFallbackAcrossCycles ==
  \A c1 \in 1..Len(cyc), c2 \in 1..Len(cyc) :
    (c1 < c2 /\ cyc[c1].fetched = "ok" /\ cyc[c2].fetched \in FailKinds) =>
      /\ cyc[c2].mainError = Null
      /\ cyc[c2].got = cyc[c1].got

(* C5 as stated: a profile is handed to bookAppointment only if its active *)
(* field is a letter-case variant of 'yes'.                                *)
OnlyActiveDispatched ==
  \A c \in 1..Len(cyc) : \A i \in 1..Len(cyc[c].started) :
    LET row == feed[cyc[c].started[i]]
    IN row.active # Null /\ AnyCaseYes(row.active[1])

(* C8: in part_002 and part_004 the profiles of an invocation are handed   *)
(* to bookAppointment in non-decreasing order of priority, an absent       *)
(* priority counting as 3, and profiles of equal priority in the order of  *)
(* the feed.                                                               *)
PriorityOr3(row) == IF row.priority = Null THEN 3 ELSE row.priority[1]

DispatchInPriorityOrder ==
  variant \in {"p002", "p004"} =>
    \A c \in 1..Len(cyc) : \A i \in 1..Len(cyc[c].started), j \in 1..Len(cyc[c].started) :
      i < j =>
        LET a == cyc[c].started[i]
            b == cyc[c].started[j]
        IN \/ PriorityOr3(feed[a]) < PriorityOr3(feed[b])
           \/ PriorityOr3(feed[a]) = PriorityOr3(feed[b]) /\ a < b

(* the example of the claim: priorities 3 (absent), 1, 5, 1 *)
DispatchOrderWitness ==
  /\ variant = "p004" /\ feed = ExampleSheet
  /\ Len(cyc) >= 1 /\ cyc[1].started = <<2, 4, 1>>
  /\ cyc[1].configs = <<2, 4, 1, 3>>

(* C12 as stated: every execution of bookAppointment that has ended called *)
(* recordRun exactly once, with success = true exactly when the execution  *)
(* reached the confirmation page.                                          *)
RecordRunOncePerAttempt ==
  /\ recordRunCalls = Len(bkLog)
  /\ \A i \in 1..Len(bkLog) :
       /\ bkLog[i].recorded = 1
       /\ bkLog[i].arg = Some(bkLog[i].reached)

(* C13 as stated: a profile with an activeWindow S-E is processed exactly  *)
(* when S <= UTC hour + 1 <= E, and a profile without one always.          *)
UtcHour(clk) == (((clk[1] * 60 + clk[3] + clk[2]) + 1440) \div 60) % 24

WindowGateByUtcHour ==
  fOut # Null =>
    \A i \in 1..Len(fIn) :
      LET row == fIn[i] IN
      (row \in Range(fOut[1])) <=>
        \/ row.activeWindow = Null
        \/ /\ row.activeWindow[1][1] <= UtcHour(hostClock) + 1
           /\ UtcHour(hostClock) + 1 <= row.activeWindow[1][2]

(* C14: a well-formed /code handled while the pending continuation of a
   suspended attempt is registered settles that attempt's promise with the
   code; a settled promise never changes, so a later /code cannot replace the
   code, and the attempt resumes with exactly the code of its promise. *)
OtpDeliveredOnce ==
  [][\A a \in 1..Len(otpAtt) :
       /\ otpAtt[a].promise # Null => otpAtt'[a].promise = otpAtt[a].promise
       /\ otpAtt[a].smsCode # Null => otpAtt'[a].smsCode = otpAtt[a].smsCode
       /\ otpAtt'[a].smsCode # Null => otpAtt'[a].smsCode = otpAtt'[a].promise
       /\ ( /\ otpCmds' = otpCmds + 1
            /\ otpLast'[1].text \in {MsgCode123456, MsgCode654321, MsgCodeExtra}
            /\ otpResolver = Some(a)
            /\ a \in Awaiting )
          => otpAtt'[a].promise = Some(SubSeq(otpLast'[1].text, 7, 12))]_vars

(* an attempt resumed with 123456 although a later /code 654321 was handled *)
OtpDeliveredOnceWitness ==
  /\ otpAtt # <<>>
  /\ otpAtt[1].smsCode = Some(SubSeq(MsgCode123456, 7, 12))
  /\ otpCmds >= 2
  /\ otpLast # Null
  /\ otpLast[1].text = MsgCode654321

(* C15: in bot.js a well-formed /code handled when no attempt is awaiting a
   code is answered with the manual-entry instructions that contain the code,
   not with the "will be entered automatically" acknowledgement. *)
ManualReplyWhenNoneAwaiting ==
  ( /\ variant = "bot"
    /\ otpLast # Null
    /\ otpLast[1].text \in {MsgCode123456, MsgCode654321, MsgCodeExtra}
    /\ otpLast[1].awaiting = {} )
  => otpLast[1].replies = <<Reply("manual", Some(SubSeq(otpLast[1].text, 7, 12)))>>

(* C16: a /code whose argument is missing, of the wrong length or not all
   digits is answered with the format-error reply alone, and handling it
   changes neither the registered continuation nor any attempt (a pending
   promise stays pending) nor the timers. *)
MalformedCodeRejected ==
  [][( /\ otpCmds' = otpCmds + 1
       /\ otpLast'[1].text \in {MsgNonDigit, MsgShort, MsgLong, MsgBare, MsgTwoSpaces} )
     => /\ otpLast'[1].replies = <<Reply("formatError", Null)>>
        /\ UNCHANGED <<otpResolver, otpAtt, otpTimers>>]_vars

(* /code 12a456 was handled while attempt 1 waits: it still waits *)
MalformedCodeWitness ==
  /\ otpLast # Null
  /\ otpLast[1].text = MsgNonDigit
  /\ otpLast[1].replies = <<Reply("formatError", Null)>>
  /\ otpLast[1].awaiting = {1}
  /\ otpResolver = Some(1)
  /\ otpAtt[1].pc = "waiting" /\ otpAtt[1].promise = Null

(* C17: a cycle over a feed of one active profile in which nothing outside
   the program fails (the feed is served, the slot is in the page, the code
   arrives, every send is accepted) selects that profile, runs one attempt up
   to the confirmation step and calls recordRun(true, runtime) exactly once. *)
EndToEndRecordsOnce ==
  (bkPc = "done" /\ feed = <<RowYes>> /\ ~bkEnvFailed)
  => /\ bkSelected = <<RowYes.id>>
     /\ Len(bkLog) = 1
     /\ bkLog[1].reached
     /\ bkLog[1].recorded = 1
     /\ bkLog[1].arg = Some(TRUE)
     /\ recordRunCalls = 1
     /\ metrics.successfulBookings = 1

(* C18: the booking attempts in progress, each holding a browser session,
   never outnumber the limiter of the deployment, also across overlapping
   invocations of main(). *)
SessionsWithinLimiter == OpenSessions <= LimiterSize(variant)

(* C19: whatever happened to the other attempts of its cycle, a selected
   profile whose attempt has not started is still going to be started: in
   part_004 and part_006 its job is still in the limiter's queue, in part_002
   the loop of main() is still running and has not passed it; and the
   profiles started so far are exactly the others. *)
FailureIsolation ==
  \A c \in 1..Len(cyc) :
    /\ \A k \in 1..Len(cyc[c].st) :
         /\ cyc[c].st[k] = "queued" => <<c, k>> \in Range(queue)
         /\ cyc[c].st[k] = "pending" => (cyc[c].pc = "running" /\ cyc[c].pos <= k)
    /\ Len(cyc[c].started) =
         Cardinality({k \in 1..Len(cyc[c].st) : cyc[c].st[k] \notin {"queued", "pending"}})

(* part_002: the attempt for the first profile failed and the attempt for
   the second one is running *)
FailureIsolationWitness ==
  /\ variant = "p002"
  /\ \E c \in 1..Len(cyc) :
       /\ Len(cyc[c].st) >= 2
       /\ cyc[c].st[1] = "failed"
       /\ cyc[c].st[2] = "running"

(* C20: no execution of bookAppointment ends by raising the error of a failed
   chat send, and main() never ends by raising one. *)
SendFailureContained ==
  /\ \A i \in 1..Len(bkLog) : bkLog[i].escaped # Some("send")
  /\ bkMain # "escaped"

(* C21: an execution of bookAppointment that has ended has no browser
   session left open, whatever step failed, unless browser.close() itself
   raised when the finally block called it. *)
SessionClosedAtEnd ==
  \A i \in 1..Len(bkLog) : bkLog[i].browser = "open" => bkLog[i].closeThrew

(* an attempt that failed after the browser was opened ended with the
   session closed *)
SessionClosedWitness ==
  /\ bkLog # <<>>
  /\ bkLog[1].browser = "closed"
  /\ ~bkLog[1].reached
  /\ bkLog[1].escaped = Null
  /\ variant = "p006"

(* C23: when an execution of bookAppointment ends, cancelOrder has been
   called for the phone lease it bought with getNumber, if it bought one. *)
LeaseCancelledAtEnd ==
  \A i \in 1..Len(bkLog) : bkLog[i].lease # "held"

(* C22: an attempt that waits for a code stops waiting at some point, by a
   code or by a timeout. *)
OtpWaitEnds ==
  \A a \in 1..MaxAttempts :
    (a <= Len(otpAtt) /\ otpAtt[a].pc = "waiting")
      ~> (a <= Len(otpAtt) /\ otpAtt[a].pc # "waiting")

(* C24: on a page without an available cell the search of part_004 and of
   part_006 makes at most three page evaluations per strategy and does not
   return a slot. *)
NoSlotsSearchBounded ==
  (variant \in {"p004", "p006"} /\ page = <<>>)
  => /\ slotEvals <= 3 * StrategyCount(variant)
     /\ slotPc \in {"search", "raised"}

(* C25: the first slot detected after a /stop followed by a /monitor is
   alerted, however recent the alert before the /stop was. *)
AlertAfterRestart ==
  (monLastDetect # Null /\ monLastDetect[1].restart = "restarted")
  => monLastDetect[1].alerted

(* C26: any two slot-found alerts are more than the cooldown of 300000 ms
   apart. *)
AlertsRespectCooldown ==
  \A i, j \in 1..Len(monAlerts) :
    i < j => monAlerts[j] - monAlerts[i] > AlertCooldown

(* two alerts were sent, with a /stop and a /monitor handled in between or
   around them *)
AlertsCooldownWitness ==
  /\ Len(monAlerts) >= 2
  /\ monCmds >= 3
  /\ monAlerts[2] - monAlerts[1] = AlertCooldown + 1

(* C27: every phase instruction message of the guided workflow (navigation,
   form fill, CAPTCHA, SMS verification, date selection) is the direct
   response to an operator command; none is sent by a timer. *)
PhasesOperatorDriven ==
  \A i \in 1..Len(gwSent) :
    (\E n \in DOMAIN PhaseCommands : gwSent[i].phase = PhaseCommands[n])
      => gwSent[i].cause = "command"

(* C28: the handler that started an attempt has returned by the time the
   attempt waits for its OTP; it is not held for the length of the booking. *)
HandlerReturnsEarly ==
  \A a \in 1..Len(otpAtt) : otpAtt[a].pc = "waiting" => otpAtt[a].handler = "returned"

(* C29: when BOT_TOKEN, CHAT_ID or SHEETS_URL is absent at start-up, or
   SHEETS_URL is not a well-formed URL, the process ends with exit status 1
   and has made no network request and sent no chat message. *)
StartupRejectsBadEnvironment ==
  (~suEnv.BOT_TOKEN \/ ~suEnv.CHAT_ID \/ suEnv.SHEETS_URL # "wellformed")
    => /\ suPc \in {"validate", "exited"}
       /\ suPc = "exited" => suExit = Some(1)
       /\ suActs = 0

(* C30: the personal data is entered only in an attempt whose slot search
   has selected a slot, and the search stays within its cap of passes. *)
PersonalDataAfterSlot ==
  /\ enPersonal # Null => enPersonal[1] # Null
  /\ enAttempts <= MaxSlotAttempts

(* C31: waitForSMS ends before its timeout, without a code, only after 5
   consecutive failed polls. *)
GivesUpAfterFiveFailures ==
  smPc \in {"gaveUp", "raised"} => smFails >= SmsGiveUp

(* C32: checkBalances returns exactly one entry per provider, three in
   all, and the unavailable entry only for a provider whose check failed. *)
OneEntryPerProvider ==
  hbPc = Len(Providers) + 1 =>
    /\ Len(hbChecks) = Len(Providers)
    /\ \A p \in DOMAIN Providers :
         /\ hbChecks[p].provider = Providers[p]
         /\ hbChecks[p].entry = "unavailable" <=> hbEnv[p] = "fetchFails"

(* C33: every row that passes the filters of the cycle is among the rows
   handed to the limiter, however many rows there are. *)
EveryPassingRowDispatched ==
  fOut # Null =>
    \A i \in 1..Len(fIn) :
      PassesFilters(variant, fIn[i], hostClock) => \E k \in 1..Len(fOut[1]) : fOut[1][k] = i

(* C34: at most one monitorLoop is running at any time. *)
SingleMonitorLoop ==
  Cardinality({l \in 1..Len(monLoops) : monLoops[l].pc = "run"}) <= 1

(* C35: at any time at most one booking attempt is in flight (queued in
   the limiter, running, or between two retries) for a given row of the
   feed, across all invocations of main(). *)
OneAttemptPerProfile ==
  \A c1, c2 \in 1..Len(cyc) :
    \A k1 \in 1..Len(cyc[c1].st), k2 \in 1..Len(cyc[c2].st) :
      /\ cyc[c1].st[k1] \in {"queued", "running", "backoff"}
      /\ cyc[c2].st[k2] \in {"queued", "running", "backoff"}
      /\ cyc[c1].configs[k1] = cyc[c2].configs[k2]
      => c1 = c2 /\ k1 = k2

(* C36: no attempt that waits for its OTP is orphaned: the process-wide
   resolver can still deliver a code to every attempt that is waiting
   without one.  (An attempt the resolver does not lead to can never be
   served: only /code delivers, and only through the resolver.) *)
NoOrphanedWait ==
  \A a \in Awaiting : otpResolver = Some(a)

(* C37: a refreshConfigs() call made while a cache existed, whose fetch
   fails, returns that cached array without raising, and the cache is
   still held afterwards. *)
RefreshKeepsData ==
  (cmPc = "idle" /\ cmRefresh # Null /\ cmRefresh[1] # Null /\ cmLast[1].resp # "ok") =>
    /\ cmLast[1].err = "none"
    /\ cmLast[1].out = cmRefresh[1]
    /\ cache = cmRefresh[1]

(* C38: the hour main() computes for the activeWindow gate is a whole hour
   in 0..23 and equals (UTC hour + 1) mod 24, whatever the time of day and
   the time zone of the host. *)
CetHourIsUtcPlusOne ==
  fOut # Null =>
    /\ CurrentHourMinutes(hostClock) % 60 = 0
    /\ CurrentHourMinutes(hostClock) \div 60 \in 0..23
    /\ CurrentHourMinutes(hostClock) = ((UtcHour(hostClock) + 1) % 24) * 60

(* C39: a /code command received while no automatic booking is in progress
   does not stop the monitor, and while a booking is in progress the
   monitor loop starts no second automatic booking. *)
CodeLeavesMonitorAlone ==
  "stoppedIdle" \notin mcLog /\ "secondBooking" \notin mcLog

====
